---------------------------- MODULE Spec2Model ----------------------------
(***************************************************************************)
(* A model of scripts/analyze_volve_dataset_health.py: the streaming       *)
(* dataset health analyzer (RunningStat, find_column, analyze_dataset and  *)
(* main).                                                                  *)
(*                                                                         *)
(* Floats are modelled as exact rationals <<num, den>> in lowest terms     *)
(* with den > 0, so every statement below about mean, M2 and the rates is  *)
(* a statement in exact arithmetic.  Optional values are <<>> (None) or    *)
(* <<v>>.  A cell of a chunk is <<"na">> (empty / NaN), <<"str">> (present *)
(* text that does not parse as a number) or <<"num", v>>.                  *)
(***************************************************************************)
EXTENDS Integers, Sequences, FiniteSets, TLC

VARIABLES
    files,       \* the three candidate datasets of discover_datasets, as on disk
    m_pc,        \* main: "start", "loop", "written", "no_datasets", "raised"
    datasets,    \* main: the candidates found, by their place in the list
    cur,         \* main: place in datasets of the dataset being analyzed
    results,     \* main: the records appended so far
    report,      \* main: the output written, None until then
    logs,        \* every message logged, in order
    a_pc,        \* analyze_dataset: "idle" or "chunks" (inside the chunk loop)
    an,          \* analyze_dataset: its locals
    stat,        \* SpecStat: the RunningStat under test
    fed,         \* SpecStat: every cell handed to update so far, in order
    updates,     \* SpecStat: number of update calls that carried a number
    fc_columns,    \* SpecFind: the header handed to find_column
    fc_candidates, \* SpecFind: the candidate aliases, in priority order
    fc_result,     \* SpecFind: what find_column returned
    fc_pc,         \* SpecFind: "call" before the call, "done" after it
    par,           \* SpecPar: two analyze_dataset calls in flight, each with
                   \* its own locals
    tq,            \* SpecTorque: the last call of torque_baseline, its
                   \* arguments and its outcome
    det,           \* SpecDet: a RollingZScoreDetector, the values handed to
                   \* update so far and what the last update returned
    svc,           \* SpecSvc: the anomaly service of run_mqtt: the stored
                   \* depth, its detector, the messages handled and the
                   \* events published
    chk            \* SpecSplit, SpecOrder: one analyze_dataset call whose
                   \* reader cuts the rows into chunks of any sizes, or
                   \* hands over its chunks in any order

mainVars == <<files, m_pc, datasets, cur, results, report, logs, a_pc, an>>

statVars == <<stat, fed, updates>>

findVars == <<fc_columns, fc_candidates, fc_result, fc_pc>>

parVars == <<par>>

tqVars == <<tq>>

detVars == <<det>>

svcVars == <<svc>>

chkVars == <<chk>>

extVars == <<det, svc, chk>>

vars == <<files, m_pc, datasets, cur, results, report, logs, a_pc, an,
          stat, fed, updates, fc_columns, fc_candidates, fc_result, fc_pc, par, tq,
          det, svc, chk>>

-----------------------------------------------------------------------------
(* Optional values and cells                                               *)

None == <<>>

Some(x) == <<x>>

NA == <<"na">>

NonNum == <<"str">>

Num(v) == <<"num", v>>

IsNum(cell) == cell[1] = "num"

\* Series.isna(): only empty cells are missing, present text is not
isna(cell) == cell = NA

-----------------------------------------------------------------------------
(* Exact rational arithmetic standing for float arithmetic                 *)

Abs(x) == IF x < 0 THEN -x ELSE x

RECURSIVE Gcd(_, _)
Gcd(a, b) == IF b = 0 THEN a ELSE Gcd(b, a % b)

Rat(n, d) ==
    LET g == Gcd(Abs(n), Abs(d))
        s == IF d < 0 THEN -1 ELSE 1
    IN  <<(s * n) \div g, (s * d) \div g>>

float(v) == <<v, 1>>

RAdd(a, b) == Rat(a[1] * b[2] + b[1] * a[2], a[2] * b[2])

RSub(a, b) == Rat(a[1] * b[2] - b[1] * a[2], a[2] * b[2])

RMul(a, b) == Rat(a[1] * b[1], a[2] * b[2])

RDiv(a, b) == Rat(a[1] * b[2], a[2] * b[1])

RLess(a, b) == a[1] * b[2] < b[1] * a[2]

-----------------------------------------------------------------------------
(* RunningStat                                                             *)

\* pd.to_numeric(series, errors="coerce").dropna(): the numbers of the
\* series, in order; empty cells and unparseable text are dropped
RECURSIVE to_numeric_dropna(_)
to_numeric_dropna(series) ==
    IF series = <<>> THEN <<>>
    ELSE IF IsNum(Head(series))
         THEN <<Head(series)[2]>> \o to_numeric_dropna(Tail(series))
         ELSE to_numeric_dropna(Tail(series))

RECURSIVE SeqSum(_)
SeqSum(values) ==
    IF values = <<>> THEN 0 ELSE Head(values) + SeqSum(Tail(values))

RECURSIVE SeqMin(_)
SeqMin(values) ==
    IF Len(values) = 1 THEN Head(values)
    ELSE LET m == SeqMin(Tail(values))
         IN  IF Head(values) < m THEN Head(values) ELSE m

RECURSIVE SeqMax(_)
SeqMax(values) ==
    IF Len(values) = 1 THEN Head(values)
    ELSE LET m == SeqMax(Tail(values))
         IN  IF Head(values) > m THEN Head(values) ELSE m

\* values.mean()
series_mean(values) == Rat(SeqSum(values), Len(values))

RAbs(x) == <<Abs(x[1]), x[2]>>

\* the largest magnitude among the values
MaxAbs(values) ==
    IF Abs(SeqMin(values)) > Abs(SeqMax(values))
    THEN Abs(SeqMin(values)) ELSE Abs(SeqMax(values))

RECURSIVE SumSqDev(_, _)
SumSqDev(values, mean) ==
    IF values = <<>> THEN float(0)
    ELSE LET d == RSub(float(Head(values)), mean)
         IN  RAdd(RMul(d, d), SumSqDev(Tail(values), mean))

\* values.var(ddof=0): the population variance about the batch mean
series_var(values) ==
    RDiv(SumSqDev(values, series_mean(values)), float(Len(values)))

RunningStat ==
    [count |-> 0, mean |-> float(0), m2 |-> float(0),
     min_value |-> None, max_value |-> None]

\* a merge that forgets the between-batch term of M2
merged_m2_NoCross(self, chunk_count, chunk_mean, chunk_m2) ==
    RAdd(self.m2, chunk_m2)

\* line 119: self.m2 + chunk_m2 + delta * delta * self.count * chunk_count / total
merged_m2(self, chunk_count, chunk_mean, chunk_m2) ==
    LET delta == RSub(chunk_mean, self.mean)
        total == self.count + chunk_count
    IN  RAdd(RAdd(self.m2, chunk_m2),
             RDiv(RMul(RMul(RMul(delta, delta), float(self.count)),
                       float(chunk_count)),
                  float(total)))

\* line 118: self.mean + delta * chunk_count / total
merged_mean(self, chunk_count, chunk_mean) ==
    LET delta == RSub(chunk_mean, self.mean)
        total == self.count + chunk_count
    IN  RAdd(self.mean, RDiv(RMul(delta, float(chunk_count)), float(total)))

RunningStat_update(self, series) ==
    LET values == to_numeric_dropna(series)
    IN  IF values = <<>> THEN self
        ELSE
        LET chunk_count == Len(values)
            chunk_mean  == series_mean(values)
            chunk_var   == series_var(values)
            chunk_m2    == RMul(chunk_var, float(chunk_count))
            chunk_min   == SeqMin(values)
            chunk_max   == SeqMax(values)
        IN  [count |-> IF self.count = 0 THEN chunk_count
                       ELSE self.count + chunk_count,
             mean  |-> IF self.count = 0 THEN chunk_mean
                       ELSE merged_mean(self, chunk_count, chunk_mean),
             m2    |-> IF self.count = 0 THEN chunk_m2
                       ELSE merged_m2(self, chunk_count, chunk_mean, chunk_m2),
             min_value |->
                 IF self.min_value = None \/ chunk_min < self.min_value[1]
                 THEN Some(chunk_min) ELSE self.min_value,
             max_value |->
                 IF self.max_value = None \/ chunk_max > self.max_value[1]
                 THEN Some(chunk_max) ELSE self.max_value]

\* std() is sqrt(m2 / count), and 0.0 when count <= 1.  The square root is
\* not representable over the rationals; std_sq is its argument, and two
\* stds are equal exactly when their std_sq are (sqrt is injective on the
\* non-negative reals).
std_sq(self) ==
    IF self.count <= 1 THEN float(0) ELSE RDiv(self.m2, float(self.count))

-----------------------------------------------------------------------------
(* RunningStat in floating point: every operation rounds its exact result  *)

\* the significand width of a float, scaled down from the 53 bits of a double
FLOAT_BITS == 3

RECURSIVE Pow2(_)
Pow2(k) == IF k = 0 THEN 1 ELSE 2 * Pow2(k - 1)

\* a / d >= 0 rounded to FLOAT_BITS significant bits, to nearest, ties to even
RECURSIVE round_abs(_, _)
round_abs(a, d) ==
    IF a = 0 THEN float(0)
    ELSE IF a >= d * Pow2(FLOAT_BITS) THEN RMul(float(2), round_abs(a, 2 * d))
    ELSE IF a < d * Pow2(FLOAT_BITS - 1) THEN RDiv(round_abs(2 * a, d), float(2))
    ELSE LET q == a \div d
             r == a % d
         IN  float(IF 2 * r > d \/ (2 * r = d /\ q % 2 = 1) THEN q + 1 ELSE q)

\* the float nearest to the rational x
fl(x) ==
    IF x[1] < 0 THEN RSub(float(0), round_abs(-x[1], x[2]))
    ELSE round_abs(x[1], x[2])

FAdd(a, b) == fl(RAdd(a, b))

FSub(a, b) == fl(RSub(a, b))

FMul(a, b) == fl(RMul(a, b))

FDiv(a, b) == fl(RDiv(a, b))

\* values.sum(): the values added one after the other onto acc
RECURSIVE fl_sum(_, _)
fl_sum(acc, values) ==
    IF values = <<>> THEN acc
    ELSE fl_sum(FAdd(acc, fl(float(Head(values)))), Tail(values))

\* float(values.mean()): the sum divided by the count
fl_mean(values) == FDiv(fl_sum(float(0), values), float(Len(values)))

RECURSIVE fl_sum_sq_dev(_, _, _)
fl_sum_sq_dev(acc, values, avg) ==
    IF values = <<>> THEN acc
    ELSE LET d == FSub(avg, fl(float(Head(values))))
         IN  fl_sum_sq_dev(FAdd(acc, FMul(d, d)), Tail(values), avg)

\* float(values.var(ddof=0))
fl_var(values) ==
    FDiv(fl_sum_sq_dev(float(0), values, fl_mean(values)), float(Len(values)))

\* a minimum that takes the minimum of the last batch
min_merge_Last(min_value, chunk_min) == Some(chunk_min)

\* lines 124-125
min_merge(min_value, chunk_min) ==
    IF min_value = None \/ chunk_min < min_value[1] THEN Some(chunk_min) ELSE min_value

\* a maximum that takes the maximum of the last batch
max_merge_Last(max_value, chunk_max) == Some(chunk_max)

\* lines 126-127
max_merge(max_value, chunk_max) ==
    IF max_value = None \/ chunk_max > max_value[1] THEN Some(chunk_max) ELSE max_value

\* lines 106-127, with the rounding of each operation: the merge of a batch
\* that holds the numbers  values, not empty
RunningStat_merge_fl(self, values) ==
    LET chunk_count == Len(values)
        chunk_mean  == fl_mean(values)
        chunk_var   == fl_var(values)
        chunk_m2    == FMul(chunk_var, float(chunk_count))
        delta       == FSub(chunk_mean, self.mean)
        total       == self.count + chunk_count
    IN  [count |-> IF self.count = 0 THEN chunk_count ELSE total,
         mean  |-> IF self.count = 0 THEN chunk_mean
                   ELSE FAdd(self.mean,
                             FDiv(FMul(delta, float(chunk_count)), float(total))),
         m2    |-> IF self.count = 0 THEN chunk_m2
                   ELSE FAdd(FAdd(self.m2, chunk_m2),
                             FDiv(FMul(FMul(FMul(delta, delta), float(self.count)),
                                       float(chunk_count)),
                                  float(total))),
         min_value |-> min_merge(self.min_value, SeqMin(values)),
         max_value |-> max_merge(self.max_value, SeqMax(values))]

\* an update that starts over on a batch without a number
RunningStat_update_fl_ResetOnEmpty(self, series) ==
    LET values == to_numeric_dropna(series)
    IN  IF values = <<>> THEN RunningStat
        ELSE RunningStat_merge_fl(self, values)

\* RunningStat.update, lines 102-127: a batch without a number returns at
\* line 104
RunningStat_update_fl(self, series) ==
    LET values == to_numeric_dropna(series)
    IN  IF values = <<>> THEN self
        ELSE RunningStat_merge_fl(self, values)

-----------------------------------------------------------------------------
(* torque_baseline (physics/torque_drag.py)                                *)

ValueError == [raised |-> TRUE, value |-> float(0)]

Returned(value) == [raised |-> FALSE, value |-> value]

\* a torque_baseline without its argument checks
torque_baseline_NoChecks(depth_m, mu, r_m, fn_per_m) ==
    Returned(FMul(FMul(mu, FMul(fn_per_m, depth_m)), r_m))

\* lines 21-31; every product is rounded to a float
torque_baseline(depth_m, mu, r_m, fn_per_m) ==
    IF RLess(depth_m, float(0)) THEN ValueError
    ELSE IF RLess(mu, float(0)) THEN ValueError
    ELSE IF ~RLess(float(0), r_m) THEN ValueError
    ELSE IF RLess(fn_per_m, float(0)) THEN ValueError
    ELSE LET n_total == FMul(fn_per_m, depth_m)
         IN  Returned(FMul(FMul(mu, n_total), r_m))

-----------------------------------------------------------------------------
(* RollingZScoreDetector (ares1/ml/anomaly.py)                              *)
(*                                                                         *)
(* A sample is a rational in units of 1e-9, so that the floor 1e-9 of line  *)
(* 49 is one unit; a z-score is a ratio of two samples and has no unit.     *)
(* statistics.fmean and statistics.pstdev round once, from the exact mean   *)
(* and the exact variance, which are what the model holds.  A square root   *)
(* is not representable over the rationals: the model holds stdev and       *)
(* z_score by their squares (and z_score by its sign), and compares them    *)
(* through the squares, sqrt being increasing on the non-negative reals.    *)

\* __post_init__, lines 34-39: the checks that raise ValueError
post_init_raises(window_size, min_samples) ==
    \/ window_size <= 1
    \/ min_samples < 1
    \/ min_samples > window_size

\* the detector after construction, line 40: an empty deque
RollingZScoreDetector(window_size, z_threshold, min_samples) ==
    [window_size |-> window_size, z_threshold |-> z_threshold,
     min_samples |-> min_samples, _window |-> <<>>]

\* deque(maxlen=...).append: the oldest value leaves a full deque
deque_append(window, maxlen, value) ==
    IF Len(window) >= maxlen THEN Append(Tail(window), value)
    ELSE Append(window, value)

RECURSIVE RSum(_)
RSum(window) ==
    IF window = <<>> THEN float(0) ELSE RAdd(Head(window), RSum(Tail(window)))

\* statistics.fmean
fmean(window) == RDiv(RSum(window), float(Len(window)))

RECURSIVE RSumSqDev(_, _)
RSumSqDev(window, mean) ==
    IF window = <<>> THEN float(0)
    ELSE LET d == RSub(Head(window), mean)
         IN  RAdd(RMul(d, d), RSumSqDev(Tail(window), mean))

\* the square of statistics.pstdev: the population variance
pstdev_sq(window) == RDiv(RSumSqDev(window, fmean(window)), float(Len(window)))

\* line 49: stdev <= 1e-9, in units of 1e-9
stdev_at_floor(stdev_sq) == ~RLess(float(1), stdev_sq)

\* line 56: abs(z_score) >= self.z_threshold
abs_reaches(z_score_sq, z_threshold) ==
    \/ ~RLess(float(0), z_threshold)
    \/ ~RLess(z_score_sq, RMul(z_threshold, z_threshold))

\* the dict of lines 57-62
ZEvent(value, mean, stdev_sq) ==
    [value |-> value, mean |-> mean, stdev_sq |-> stdev_sq,
     z_score_sq |-> RDiv(RMul(RSub(value, mean), RSub(value, mean)), stdev_sq),
     z_score_sign |-> IF RLess(value, mean) THEN -1
                      ELSE IF RLess(mean, value) THEN 1 ELSE 0]

\* an update that appends the value before it takes the mean and the stdev
RollingZScoreDetector_update_AppendFirst(self, value) ==
    LET appended == [self EXCEPT !._window =
                         deque_append(self._window, self.window_size, value)]
    IN  IF Len(self._window) < self.min_samples
        THEN [self |-> appended, returned |-> None]
        ELSE
        LET mean     == fmean(appended._window)
            stdev_sq == pstdev_sq(appended._window)
        IN  IF stdev_at_floor(stdev_sq)
            THEN [self |-> appended, returned |-> None]
            ELSE IF abs_reaches(ZEvent(value, mean, stdev_sq).z_score_sq,
                                self.z_threshold)
                 THEN [self |-> appended,
                       returned |-> Some(ZEvent(value, mean, stdev_sq))]
                 ELSE [self |-> appended, returned |-> None]

\* RollingZScoreDetector.update, lines 42-63: the detector after the call
\* and what the call returned
RollingZScoreDetector_update(self, value) ==
    LET appended == [self EXCEPT !._window =
                         deque_append(self._window, self.window_size, value)]
    IN  IF Len(self._window) < self.min_samples
        THEN [self |-> appended, returned |-> None]
        ELSE
        LET mean     == fmean(self._window)
            stdev_sq == pstdev_sq(self._window)
        IN  IF stdev_at_floor(stdev_sq)
            THEN [self |-> appended, returned |-> None]
            ELSE IF abs_reaches(ZEvent(value, mean, stdev_sq).z_score_sq,
                                self.z_threshold)
                 THEN [self |-> appended,
                       returned |-> Some(ZEvent(value, mean, stdev_sq))]
                 ELSE [self |-> appended, returned |-> None]

-----------------------------------------------------------------------------
(* TorqueAnomalyDetector and the message handler of run_mqtt                *)

\* TorqueAnomalyDetector(...) after __post_init__, lines 66-81
TorqueAnomalyDetector(mu, r_m, fn_per_m, z_threshold, window_size, min_samples) ==
    [mu |-> mu, r_m |-> r_m, fn_per_m |-> fn_per_m, z_threshold |-> z_threshold,
     window_size |-> window_size, min_samples |-> min_samples,
     detector |-> RollingZScoreDetector(window_size, z_threshold, min_samples)]

\* the dict of lines 90-106; the timestamp, the wall clock, and the constant
\* "model" entry are left out
AnomalyEvent(depth_m, torque_nm, baseline, residual, result, z_threshold) ==
    [event_type |-> "torque_anomaly", depth_m |-> depth_m, torque_nm |-> torque_nm,
     baseline_nm |-> baseline, residual_nm |-> residual,
     z_score_sq |-> result.z_score_sq, z_score_sign |-> result.z_score_sign,
     z_threshold |-> z_threshold]

\* TorqueAnomalyDetector.update, lines 83-106: whether torque_baseline
\* raised, the detector after the call and what the call returned
TorqueAnomalyDetector_update(self, depth_m, torque_nm) ==
    LET baseline == torque_baseline(depth_m, self.mu, self.r_m, self.fn_per_m)
    IN  IF baseline.raised
        THEN [raised |-> TRUE, self |-> self, returned |-> None]
        ELSE
        LET residual == FSub(torque_nm, baseline.value)
            out == RollingZScoreDetector_update(self.detector, residual)
        IN  [raised |-> FALSE,
             self |-> [self EXCEPT !.detector = out.self],
             returned |->
                 IF out.returned = None THEN None
                 ELSE Some(AnomalyEvent(depth_m, torque_nm, baseline.value, residual,
                                        out.returned[1], self.z_threshold))]

DEPTH_TOPIC == "ares1/telemetry/depth"

TORQUE_TOPIC == "ares1/telemetry/torque"

\* a payload that json.loads rejects
NotJson == <<"not json">>

\* a JSON object whose "value" is absent or null (None) or a number (Some)
Json(value) == <<"json", value>>

Message(topic, payload) == [topic |-> topic, payload |-> payload]

\* a handler that feeds the detector with depth 0 while no depth is stored
on_message_DefaultDepth(s, msg) ==
    IF msg.payload = NotJson THEN s
    ELSE IF msg.payload[2] = None THEN s
    ELSE IF msg.topic = DEPTH_TOPIC
    THEN [s EXCEPT !.depth_m = Some(fl(msg.payload[2][1]))]
    ELSE IF msg.topic = TORQUE_TOPIC
    THEN LET depth_m == IF s.depth_m = None THEN float(0) ELSE s.depth_m[1]
             out == TorqueAnomalyDetector_update(s.detector, depth_m,
                                                 fl(msg.payload[2][1]))
         IN  IF out.raised THEN [s EXCEPT !.pc = "raised"]
             ELSE IF out.returned = None THEN [s EXCEPT !.detector = out.self]
             ELSE [s EXCEPT !.detector = out.self,
                            !.published = Append(@, out.returned[1])]
    ELSE s

\* on_message, lines 145-173, on the state of run_mqtt: the stored depth,
\* the detector and the events published; an exception that escapes the
\* handler (the ValueError of torque_baseline) ends the client loop
on_message(s, msg) ==
    IF msg.payload = NotJson THEN s
    ELSE IF msg.payload[2] = None THEN s
    ELSE IF msg.topic = DEPTH_TOPIC
    THEN [s EXCEPT !.depth_m = Some(fl(msg.payload[2][1]))]
    ELSE IF msg.topic = TORQUE_TOPIC
    THEN IF s.depth_m = None THEN s
         ELSE LET out == TorqueAnomalyDetector_update(s.detector, s.depth_m[1],
                                                      fl(msg.payload[2][1]))
              IN  IF out.raised THEN [s EXCEPT !.pc = "raised"]
                  ELSE IF out.returned = None THEN [s EXCEPT !.detector = out.self]
                  ELSE [s EXCEPT !.detector = out.self,
                                 !.published = Append(@, out.returned[1])]
    ELSE s

-----------------------------------------------------------------------------
(* Column names: strings are sequences of one-character strings            *)

ASCII_UPPER ==
    <<"A", "B", "C", "D", "E", "F", "G", "H", "I", "J", "K", "L", "M",
      "N", "O", "P", "Q", "R", "S", "T", "U", "V", "W", "X", "Y", "Z">>

ASCII_LOWER ==
    <<"a", "b", "c", "d", "e", "f", "g", "h", "i", "j", "k", "l", "m",
      "n", "o", "p", "q", "r", "s", "t", "u", "v", "w", "x", "y", "z">>

DIGITS == {"0", "1", "2", "3", "4", "5", "6", "7", "8", "9"}

\* str.lower() on one character
lower(c) ==
    IF \E i \in 1..26 : ASCII_UPPER[i] = c
    THEN ASCII_LOWER[CHOOSE i \in 1..26 : ASCII_UPPER[i] = c]
    ELSE c

\* the class [a-z0-9]
IsAlnum(c) == (\E i \in 1..26 : ASCII_LOWER[i] = c) \/ c \in DIGITS

RECURSIVE DropNonAlnum(_)
DropNonAlnum(s) ==
    IF s = <<>> \/ IsAlnum(Head(s)) THEN s ELSE DropNonAlnum(Tail(s))

\* re.sub(r"[^a-z0-9]+", " ", s): every maximal run of characters outside
\* [a-z0-9] becomes one space
RECURSIVE re_sub_non_alnum(_)
re_sub_non_alnum(s) ==
    IF s = <<>> THEN <<>>
    ELSE IF IsAlnum(Head(s)) THEN <<Head(s)>> \o re_sub_non_alnum(Tail(s))
    ELSE <<" ">> \o re_sub_non_alnum(DropNonAlnum(Tail(s)))

\* str.strip() of a string whose only whitespace is the space
strip(s) ==
    LET a == IF s # <<>> /\ Head(s) = " " THEN Tail(s) ELSE s
    IN  IF a # <<>> /\ a[Len(a)] = " " THEN SubSeq(a, 1, Len(a) - 1) ELSE a

normalize_name(value) ==
    strip(re_sub_non_alnum([i \in 1..Len(value) |-> lower(value[i])]))

\* Python's  key in norm  on strings
IsSubstring(key, norm) ==
    \E i \in 0..(Len(norm) - Len(key)) : SubSeq(norm, i + 1, i + Len(key)) = key

\* {normalize_name(col): col for col in columns} as the ordered list of its
\* items: a key keeps the position of its first insertion and takes the value
\* of its last
RECURSIVE normalized_items(_, _)
normalized_items(columns, items) ==
    IF columns = <<>> THEN items
    ELSE LET col == Head(columns)
             key == normalize_name(col)
         IN  IF \E i \in 1..Len(items) : items[i][1] = key
             THEN normalized_items(Tail(columns),
                      [i \in 1..Len(items) |->
                          IF items[i][1] = key THEN <<key, col>> ELSE items[i]])
             ELSE normalized_items(Tail(columns), Append(items, <<key, col>>))

\* lines 236-239: the first candidate whose key is a key of the dictionary
RECURSIVE exact_pass(_, _)
exact_pass(items, candidates) ==
    IF candidates = <<>> THEN None
    ELSE LET key == normalize_name(Head(candidates))
         IN  IF \E i \in 1..Len(items) : items[i][1] = key
             THEN Some(items[CHOOSE i \in 1..Len(items) : items[i][1] = key][2])
             ELSE exact_pass(items, Tail(candidates))

\* lines 242-244: the first item, in dictionary order, whose key contains the
\* candidate's non-empty key
first_containing(items, key) ==
    LET hits == {i \in 1..Len(items) : key # <<>> /\ IsSubstring(key, items[i][1])}
    IN  IF hits = {} THEN None
        ELSE Some(items[CHOOSE i \in hits : \A j \in hits : i <= j][2])

\* lines 240-244
RECURSIVE substring_pass(_, _)
substring_pass(items, candidates) ==
    IF candidates = <<>> THEN None
    ELSE LET hit == first_containing(items, normalize_name(Head(candidates)))
         IN  IF hit # None THEN hit ELSE substring_pass(items, Tail(candidates))

\* one pass that tries, candidate by candidate, the exact match and then the
\* substring match
RECURSIVE single_pass(_, _)
single_pass(items, candidates) ==
    IF candidates = <<>> THEN None
    ELSE LET one == <<Head(candidates)>>
             e   == exact_pass(items, one)
             s   == substring_pass(items, one)
         IN  IF e # None THEN e
             ELSE IF s # None THEN s
             ELSE single_pass(items, Tail(candidates))

find_column_SinglePass(columns, candidates) ==
    single_pass(normalized_items(columns, <<>>), candidates)

find_column(columns, candidates) ==
    LET normalized == normalized_items(columns, <<>>)
        exact == exact_pass(normalized, candidates)
    IN  IF exact # None THEN exact ELSE substring_pass(normalized, candidates)

-----------------------------------------------------------------------------
(* The alias lists of detect_standard_columns, and other header names      *)

s_BIT_DEPTH == <<"B", "I", "T", "_", "D", "E", "P", "T", "H">>

s_BIT_DEPTH_M == <<"B", "I", "T", "_", "D", "E", "P", "T", "H", "_", "M">>

s_BIT_MEASURED_DEPTH ==
    <<"B", "I", "T", " ", "M", "E", "A", "S", "U", "R", "E", "D", " ",
      "D", "E", "P", "T", "H">>

s_DEPTH == <<"D", "E", "P", "T", "H">>

s_MD == <<"M", "D">>

s_HOLE_DEPTH == <<"H", "O", "L", "E", " ", "D", "E", "P", "T", "H">>

s_ROP == <<"R", "O", "P">>

s_ROP_MH == <<"R", "O", "P", "_", "M", "H">>

s_ROP_M_H == <<"R", "O", "P", "_", "M", "/", "H">>

s_RATE_OF_PENETRATION ==
    <<"R", "A", "T", "E", " ", "O", "F", " ",
      "P", "E", "N", "E", "T", "R", "A", "T", "I", "O", "N">>

s_TIME_AVERAGED_ROP ==
    <<"T", "I", "M", "E", " ", "A", "V", "E", "R", "A", "G", "E", "D", " ",
      "R", "O", "P">>

s_VIBRATION_0_5 ==
    <<"V", "I", "B", "R", "A", "T", "I", "O", "N", "_", "0", "_", "5">>

s_VIBRATION == <<"V", "I", "B", "R", "A", "T", "I", "O", "N">>

s_VIBRATION_RAW ==
    <<"V", "I", "B", "R", "A", "T", "I", "O", "N", "_", "R", "A", "W">>

s_LATERAL_VIBRATION ==
    <<"L", "A", "T", "E", "R", "A", "L", " ",
      "V", "I", "B", "R", "A", "T", "I", "O", "N">>

s_VIBRATION_PROXY ==
    <<"V", "I", "B", "R", "A", "T", "I", "O", "N", "_", "P", "R", "O", "X", "Y">>

s_TIME == <<"T", "I", "M", "E">>

s_TIMESTAMP == <<"T", "I", "M", "E", "S", "T", "A", "M", "P">>

s_DATETIME == <<"D", "A", "T", "E", "T", "I", "M", "E">>

s_DATE_TIME == <<"D", "A", "T", "E", " ", "T", "I", "M", "E">>

\* header names that are no alias themselves
s_Bit_Depth_m == <<"B", "i", "t", " ", "D", "e", "p", "t", "h", " ", "(", "m", ")">>

s_bit_depth == <<"b", "i", "t", "-", "d", "e", "p", "t", "h">>

s_DEPTH_ROP == <<"D", "E", "P", "T", "H", "_", "R", "O", "P">>

s_PUNCT == <<"_", "_">>

s_WOB == <<"W", "O", "B">>

s_RAW_VIBRATION_0_5 ==
    <<"R", "A", "W", "_",
      "V", "I", "B", "R", "A", "T", "I", "O", "N", "_", "0", "_", "5">>

-----------------------------------------------------------------------------
(* detect_standard_columns and expect_vibration_range                      *)

detect_standard_columns(columns) ==
    [depth |-> find_column(columns,
                   <<s_BIT_DEPTH, s_BIT_DEPTH_M, s_BIT_MEASURED_DEPTH,
                     s_DEPTH, s_MD, s_HOLE_DEPTH>>),
     rop |-> find_column(columns,
                   <<s_ROP, s_ROP_MH, s_ROP_M_H, s_RATE_OF_PENETRATION,
                     s_TIME_AVERAGED_ROP>>),
     vibration |-> find_column(columns,
                   <<s_VIBRATION_0_5, s_VIBRATION, s_VIBRATION_RAW,
                     s_LATERAL_VIBRATION, s_VIBRATION_PROXY>>),
     time |-> find_column(columns,
                   <<s_TIME, s_TIMESTAMP, s_DATETIME, s_DATE_TIME>>)]

\* the headers of the datasets of the model
Headers ==
    {<<s_BIT_DEPTH>>,
     <<s_WOB>>,
     <<s_BIT_DEPTH, s_TIME_AVERAGED_ROP>>,
     <<s_Bit_Depth_m, s_ROP, s_VIBRATION_0_5>>,
     <<s_DEPTH, s_ROP, s_VIBRATION_RAW, s_TIME>>}

\* the headers of the datasets that hold one vibration column, or none
VibHeaders ==
    {<<s_VIBRATION_0_5>>,
     <<s_VIBRATION_RAW>>,
     <<s_VIBRATION_PROXY>>,
     <<s_LATERAL_VIBRATION>>,
     <<s_RAW_VIBRATION_0_5>>,
     <<s_WOB>>}

\* detect_standard_columns(columns), evaluated once for each header of the
\* model instead of once for each dataset
\* the headers of the datasets read by a reader that cuts or orders the
\* chunks freely
SplitHeaders == {<<s_ROP>>, <<s_BIT_DEPTH, s_VIBRATION_0_5>>}

standard_columns_of ==
    [columns \in Headers \cup VibHeaders \cup SplitHeaders |->
        detect_standard_columns(columns)]

k_vibration_0_5 ==
    <<"v", "i", "b", "r", "a", "t", "i", "o", "n", " ", "0", " ", "5">>

k_vibration == <<"v", "i", "b", "r", "a", "t", "i", "o", "n">>

k_raw == <<"r", "a", "w">>

\* column_name is None or Some(name);  not column_name  also holds of the
\* empty name
expect_vibration_range(column_name) ==
    IF column_name = None \/ column_name = Some(<<>>) THEN None
    ELSE LET normalized == normalize_name(column_name[1])
         IN  IF \/ IsSubstring(k_vibration_0_5, normalized)
                \/ /\ IsSubstring(k_vibration, normalized)
                   /\ ~IsSubstring(k_raw, normalized)
             THEN Some(<<0, 5>>)
             ELSE None

-----------------------------------------------------------------------------
(* analyze_dataset: its locals, one chunk of its loop, its finalization    *)

\* scaled down from 200_000 rows
CHUNK_SIZE == 2

\* scaled down from 200_000 rows
DUPLICATE_SAMPLE_ROWS == 3

Range(seq) == {seq[i] : i \in 1..Len(seq)}

ColIndex(columns, col) == CHOOSE i \in 1..Len(columns) : columns[i] = col

\* chunk[col]: the cells of one column of a chunk, in row order
Column(chunk, columns, col) ==
    [r \in 1..Len(chunk) |-> chunk[r][ColIndex(columns, col)]]

Count(series, P(_)) == Cardinality({r \in 1..Len(series) : P(series[r])})

Min(a, b) == IF a < b THEN a ELSE b

Max(a, b) == IF a > b THEN a ELSE b

\* lines 365-379: the locals of analyze_dataset before the first chunk
analyze_locals(columns) ==
    LET standard_cols == standard_columns_of[columns]
    IN  [columns |-> columns,
         standard_cols |-> standard_cols,
         missing_counts |-> [col \in Range(columns) |-> 0],
         numeric_stats |-> [col \in Range(columns) |-> RunningStat],
         row_count |-> 0,
         fully_empty_rows |-> 0,
         depth_negative |-> 0,
         vibration_out_of_range |-> 0,
         sample_frames |-> <<>>,
         sample_remaining |-> DUPLICATE_SAMPLE_ROWS,
         vibration_range |-> expect_vibration_range(standard_cols.vibration),
         index |-> 0]

\* a count of the rows with an empty cell in some column:  any  for  all
fully_empty_in_Any(chunk) ==
    Cardinality({r \in 1..Len(chunk) : \E i \in 1..Len(chunk[r]) : isna(chunk[r][i])})

\* int(chunk.isna().all(axis=1).sum())
fully_empty_in(chunk) ==
    Cardinality({r \in 1..Len(chunk) : \A i \in 1..Len(chunk[r]) : isna(chunk[r][i])})

\* a depth check that also counts the cells that do not parse as a number
depth_negative_in_CountsUnparsed(L, chunk) ==
    LET depth_col == L.standard_cols.depth
    IN  IF depth_col # None /\ depth_col # Some(<<>>) /\ depth_col[1] \in Range(L.columns)
        THEN Count(Column(chunk, L.columns, depth_col[1]),
                   LAMBDA cell : ~IsNum(cell) \/ cell[2] < 0)
        ELSE 0

\* lines 389-392
depth_negative_in(L, chunk) ==
    LET depth_col == L.standard_cols.depth
    IN  IF depth_col # None /\ depth_col # Some(<<>>) /\ depth_col[1] \in Range(L.columns)
        THEN Count(Column(chunk, L.columns, depth_col[1]),
                   LAMBDA cell : IsNum(cell) /\ cell[2] < 0)
        ELSE 0

\* a range check that also counts the values equal to a limit
vibration_out_of_range_in_Inclusive(L, chunk) ==
    LET vibration_col == L.standard_cols.vibration
    IN  IF /\ vibration_col # None /\ vibration_col # Some(<<>>)
           /\ vibration_col[1] \in Range(L.columns)
           /\ L.vibration_range # None
        THEN LET lower_ == L.vibration_range[1][1]
                 upper_ == L.vibration_range[1][2]
             IN  Count(Column(chunk, L.columns, vibration_col[1]),
                       LAMBDA cell : IsNum(cell) /\ (cell[2] <= lower_ \/ cell[2] >= upper_))
        ELSE 0

\* lines 394-398
vibration_out_of_range_in(L, chunk) ==
    LET vibration_col == L.standard_cols.vibration
    IN  IF /\ vibration_col # None /\ vibration_col # Some(<<>>)
           /\ vibration_col[1] \in Range(L.columns)
           /\ L.vibration_range # None
        THEN LET lower_ == L.vibration_range[1][1]
                 upper_ == L.vibration_range[1][2]
             IN  Count(Column(chunk, L.columns, vibration_col[1]),
                       LAMBDA cell : IsNum(cell) /\ (cell[2] < lower_ \/ cell[2] > upper_))
        ELSE 0

\* a sampler that keeps taking whole chunks after the cap is reached
sample_take_NoCap(sample_remaining, chunk) == Len(chunk)

\* line 401: take = min(sample_remaining, len(chunk))
sample_take(sample_remaining, chunk) == Min(sample_remaining, Len(chunk))

\* a chunk handler that counts unparseable text as missing
missing_in_CountsText(series) == Count(series, LAMBDA cell : ~IsNum(cell))

\* line 386: int(chunk[col].isna().sum())
missing_in(series) == Count(series, isna)

\* lines 382-403: the body of the loop over chunks
process_chunk(L, chunk) ==
    LET take == sample_take(L.sample_remaining, chunk)
    IN  [L EXCEPT
            !.row_count = @ + Len(chunk),
            !.fully_empty_rows = @ + fully_empty_in(chunk),
            !.missing_counts =
                [col \in Range(L.columns) |->
                    @[col] + missing_in(Column(chunk, L.columns, col))],
            !.numeric_stats =
                [col \in Range(L.columns) |->
                    RunningStat_update(@[col], Column(chunk, L.columns, col))],
            !.depth_negative = @ + depth_negative_in(L, chunk),
            !.vibration_out_of_range = @ + vibration_out_of_range_in(L, chunk),
            !.sample_frames =
                IF L.sample_remaining > 0
                THEN Append(@, SubSeq(chunk, 1, take)) ELSE @,
            !.sample_remaining =
                IF L.sample_remaining > 0 THEN @ - take ELSE @,
            !.index = @ + 1]

\* Python's  a / b  on integers: a float, or ZeroDivisionError
ZeroDivisionError == <<"ZeroDivisionError">>

PyDiv(a, b) == IF b = 0 THEN ZeroDivisionError ELSE Rat(a, b)

\* a rate computed without the guard on an empty denominator
rate_or_zero_Unguarded(num, den) == PyDiv(num, den)

\* lines 412, 417, 445, 470:  num / den if den else 0.0
rate_or_zero(num, den) == IF den # 0 THEN PyDiv(num, den) ELSE float(0)

\* a missingness table whose non_null counts numeric observations only
missingness_NumericOnly(L) ==
    [col \in Range(L.columns) |->
        LET missing == L.missing_counts[col]
            non_null == L.numeric_stats[col].count
        IN  [missing |-> missing,
             missing_rate |-> rate_or_zero(missing, L.row_count),
             non_null |-> non_null,
             non_null_rate |-> rate_or_zero(non_null, L.row_count)]]

\* lines 408-418
missingness(L) ==
    [col \in Range(L.columns) |->
        LET missing == L.missing_counts[col]
            non_null == L.row_count - missing
        IN  [missing |-> missing,
             missing_rate |-> rate_or_zero(missing, L.row_count),
             non_null |-> non_null,
             non_null_rate |-> rate_or_zero(non_null, L.row_count)]]

\* a summary that keeps the columns without any numeric observation
summarized_columns_All(L) == Range(L.columns)

\* lines 422-423: columns with stat.count == 0 are skipped
summarized_columns(L) == {col \in Range(L.columns) : L.numeric_stats[col].count # 0}

\* lines 420-430; "std" holds std_sq, the argument of the square root
numeric_summary(L) ==
    [col \in summarized_columns(L) |->
        LET stat_ == L.numeric_stats[col]
        IN  [count |-> stat_.count,
             min |-> stat_.min_value,
             max |-> stat_.max_value,
             mean |-> stat_.mean,
             std |-> std_sq(stat_)]]

RECURSIVE concat(_)
concat(frames) ==
    IF frames = <<>> THEN <<>> ELSE Head(frames) \o concat(Tail(frames))

\* duplicated(keep=False): every row that has an equal row, the first included
duplicated_count_KeepFalse(sample_df) ==
    Cardinality({i \in 1..Len(sample_df) :
                    \E j \in 1..Len(sample_df) : j # i /\ sample_df[j] = sample_df[i]})

\* int(sample_df.duplicated().sum()): the rows equal to an earlier row
duplicated_count(sample_df) ==
    Cardinality({i \in 1..Len(sample_df) :
                    \E j \in 1..(i - 1) : sample_df[j] = sample_df[i]})

\* lines 432-446
duplicate_sample(L) ==
    IF L.sample_frames = <<>>
    THEN [method |-> "sampled", sample_rows |-> 0, duplicate_rows |-> 0,
          duplicate_rate |-> float(0)]
    ELSE LET sample_df == concat(L.sample_frames)
             duplicate_rows == duplicated_count(sample_df)
         IN  [method |-> "first_rows",
              sample_rows |-> Len(sample_df),
              duplicate_rows |-> duplicate_rows,
              duplicate_rate |-> rate_or_zero(duplicate_rows, Len(sample_df))]

\* a column name in a condition:  if depth_col  fails for None and for ""
Truthy(col) == col # None /\ col # Some(<<>>)

\* a lookup that falls back to the first summarized column when the logical
\* field is unresolved
stats_get_Fallback(summary, col) ==
    IF Truthy(col) /\ col[1] \in DOMAIN summary THEN Some(summary[col[1]])
    ELSE IF DOMAIN summary # {}
         THEN Some(summary[CHOOSE c \in DOMAIN summary : TRUE])
         ELSE None

\* numeric_summary.get(col, {}) if col else {}: Some(entry), or None for {}
stats_get(summary, col) ==
    IF Truthy(col) /\ col[1] \in DOMAIN summary THEN Some(summary[col[1]]) ELSE None

\* depth_stats.get(key) for "mean" and "std": the entry's float, or None
field_get(entry, key) == IF entry = None THEN None ELSE Some(entry[1][key])

\* depth_stats.get(key) for "min" and "max", which the entry holds as the
\* RunningStat's optional min_value and max_value
opt_get(entry, key) == IF entry = None THEN None ELSE entry[1][key]

\* missingness.get(col, {}).get("non_null_rate", 0.0) if col else 0.0
rate_get(miss, col) ==
    IF Truthy(col) /\ col[1] \in DOMAIN miss THEN miss[col[1]].non_null_rate
    ELSE float(0)

\* flags decided as one chain, where the first that fires hides the others
unit_flags_of_FirstOnly(depth_negative, rop_stats, vibration_out_of_range) ==
    IF depth_negative > 0 THEN <<"Negative depth values detected">>
    ELSE IF rop_stats # None /\ rop_stats[1].max # None
            /\ rop_stats[1].max[1] # 0 /\ rop_stats[1].max[1] > 300
    THEN <<"ROP max exceeds 300 m/h (unit check)">>
    ELSE IF rop_stats # None /\ RLess(rop_stats[1].mean, Rat(1, 100))
    THEN <<"ROP mean is extremely low (possible unit mismatch)">>
    ELSE IF vibration_out_of_range > 0
    THEN <<"Vibration values outside expected 0-5 range">>
    ELSE <<>>

\* lines 457-468
unit_flags_of(depth_negative, rop_stats, vibration_out_of_range) ==
    (IF depth_negative > 0 THEN <<"Negative depth values detected">> ELSE <<>>)
    \o (IF rop_stats # None /\ rop_stats[1].max # None
           /\ rop_stats[1].max[1] # 0 /\ rop_stats[1].max[1] > 300
        THEN <<"ROP max exceeds 300 m/h (unit check)">> ELSE <<>>)
    \o (IF rop_stats # None /\ RLess(rop_stats[1].mean, Rat(1, 100))
        THEN <<"ROP mean is extremely low (possible unit mismatch)">> ELSE <<>>)
    \o (IF vibration_out_of_range > 0
        THEN <<"Vibration values outside expected 0-5 range">> ELSE <<>>)

\* a scoring rule that fires: its point delta and its note
Rule(delta, note) == [delta |-> delta, note |-> note]

\* depth rules with  if  in place of  elif: both lines can fire
depth_rules_BothNotes(depth_col, depth_rate) ==
    (IF Truthy(depth_col) /\ RLess(Rat(9, 10), depth_rate)
     THEN <<Rule(30, "Depth coverage >90% (+30)")>> ELSE <<>>)
    \o (IF Truthy(depth_col) /\ RLess(Rat(7, 10), depth_rate)
        THEN <<Rule(15, "Depth coverage >70% (+15)")>> ELSE <<>>)

\* lines 479-484
depth_rules(depth_col, depth_rate) ==
    IF Truthy(depth_col) /\ RLess(Rat(9, 10), depth_rate)
    THEN <<Rule(30, "Depth coverage >90% (+30)")>>
    ELSE IF Truthy(depth_col) /\ RLess(Rat(7, 10), depth_rate)
    THEN <<Rule(15, "Depth coverage >70% (+15)")>>
    ELSE <<>>

\* lines 486-491
rop_rules(rop_col, rop_rate) ==
    IF Truthy(rop_col) /\ RLess(Rat(7, 10), rop_rate)
    THEN <<Rule(20, "ROP coverage >70% (+20)")>>
    ELSE IF Truthy(rop_col) /\ RLess(Rat(4, 10), rop_rate)
    THEN <<Rule(10, "ROP coverage >40% (+10)")>>
    ELSE <<>>

\* lines 493-498
vibration_rules(vibration_col, vib_rate) ==
    IF Truthy(vibration_col) /\ RLess(Rat(7, 10), vib_rate)
    THEN <<Rule(20, "Vibration coverage >70% (+20)")>>
    ELSE IF Truthy(vibration_col) /\ RLess(Rat(4, 10), vib_rate)
    THEN <<Rule(10, "Vibration coverage >40% (+10)")>>
    ELSE <<>>

\* a time rule with the non-strict comparison  >=
time_rules_NonStrict(time_col, time_rate) ==
    IF Truthy(time_col) /\ ~RLess(time_rate, Rat(5, 10))
    THEN <<Rule(10, "TIME coverage >50% (+10)")>> ELSE <<>>

\* lines 500-502
time_rules(time_col, time_rate) ==
    IF Truthy(time_col) /\ RLess(Rat(5, 10), time_rate)
    THEN <<Rule(10, "TIME coverage >50% (+10)")>> ELSE <<>>

\* lines 504-510
penalty_rules(fully_empty_pct, depth_negative) ==
    (IF RLess(Rat(1, 10), fully_empty_pct)
     THEN <<Rule(-10, "Fully empty rows >10% (-10)")>> ELSE <<>>)
    \o (IF depth_negative > 0
        THEN <<Rule(-10, "Negative depth values (-10)")>> ELSE <<>>)

RECURSIVE DeltaSum(_)
DeltaSum(rules) ==
    IF rules = <<>> THEN 0 ELSE Head(rules).delta + DeltaSum(Tail(rules))

\* a score returned without the final clamp
clamp_score_None(fit_score) == fit_score

\* line 512: max(0, min(100, fit_score))
clamp_score(fit_score) == Max(0, Min(100, fit_score))

\* whether one of the divisions of lines 412, 417, 445 and 470 raises
finalize_raises(L) ==
    LET miss == missingness(L)
    IN  \/ rate_or_zero(L.fully_empty_rows, L.row_count) = ZeroDivisionError
        \/ duplicate_sample(L).duplicate_rate = ZeroDivisionError
        \/ \E col \in DOMAIN miss :
               \/ miss[col].missing_rate = ZeroDivisionError
               \/ miss[col].non_null_rate = ZeroDivisionError

\* lines 408-555: the record of one dataset; path is the dataset's place in
\* the candidate list (size_bytes is only logged and returned, never used)
finalize(L, path) ==
    LET miss == missingness(L)
        summary == numeric_summary(L)
        dup == duplicate_sample(L)
        depth_col == L.standard_cols.depth
        rop_col == L.standard_cols.rop
        vibration_col == L.standard_cols.vibration
        time_col == L.standard_cols.time
        depth_stats == stats_get(summary, depth_col)
        rop_stats == stats_get(summary, rop_col)
        vibration_stats == stats_get(summary, vibration_col)
        fully_empty_pct == rate_or_zero(L.fully_empty_rows, L.row_count)
        depth_rate == rate_get(miss, depth_col)
        rop_rate == rate_get(miss, rop_col)
        vib_rate == rate_get(miss, vibration_col)
        time_rate == rate_get(miss, time_col)
        rules == depth_rules(depth_col, depth_rate)
                 \o rop_rules(rop_col, rop_rate)
                 \o vibration_rules(vibration_col, vib_rate)
                 \o time_rules(time_col, time_rate)
                 \o penalty_rules(fully_empty_pct, L.depth_negative)
    IN  [path |-> path,
         rows |-> L.row_count,
         cols |-> Len(L.columns),
         columns |-> L.columns,
         missingness |-> miss,
         numeric_stats |-> summary,
         fully_empty_rows |-> L.fully_empty_rows,
         fully_empty_row_pct |-> fully_empty_pct,
         duplicate_sample |-> dup,
         standard_columns |-> L.standard_cols,
         depth |-> [column |-> depth_col,
                    min |-> opt_get(depth_stats, "min"),
                    max |-> opt_get(depth_stats, "max"),
                    negative_count |-> L.depth_negative],
         rop |-> [column |-> rop_col,
                  min |-> opt_get(rop_stats, "min"),
                  max |-> opt_get(rop_stats, "max"),
                  mean |-> field_get(rop_stats, "mean"),
                  std |-> field_get(rop_stats, "std")],
         vibration |-> [column |-> vibration_col,
                        min |-> opt_get(vibration_stats, "min"),
                        max |-> opt_get(vibration_stats, "max"),
                        mean |-> field_get(vibration_stats, "mean"),
                        std |-> field_get(vibration_stats, "std"),
                        expected_range |-> L.vibration_range,
                        out_of_range_count |-> L.vibration_out_of_range],
         time |-> [column |-> time_col, non_null_rate |-> time_rate],
         unit_flags |-> unit_flags_of(L.depth_negative, rop_stats,
                                      L.vibration_out_of_range),
         fit_score |-> clamp_score(DeltaSum(rules)),
         fit_score_notes |-> [i \in 1..Len(rules) |-> rules[i].note]]

-----------------------------------------------------------------------------
(* Bounded sets of inputs                                                  *)

\* the sequences over S of length n, and of length at most n
SeqsOfLen(S, n) == [1..n -> S]

SeqsUpTo(S, n) == UNION {SeqsOfLen(S, k) : k \in 0..n}

\* the sequences without repetition: read_csv never yields one header name twice
InjSeqsUpTo(S, n) ==
    {s \in SeqsUpTo(S, n) : \A i, j \in 1..Len(s) : s[i] = s[j] => i = j}

-----------------------------------------------------------------------------
(* main: discover the datasets, analyze each in turn, write the report     *)

StatIdle ==
    /\ stat = RunningStat
    /\ fed = <<>>
    /\ updates = 0

FindIdle ==
    /\ fc_columns = <<>>
    /\ fc_candidates = <<>>
    /\ fc_result = None
    /\ fc_pc = "idle"

MissingFile == [state |-> "missing", columns |-> <<>>, rows |-> <<>>]

\* a file that exists and that stat() or read_csv(nrows=0) cannot read
UnreadableFile == [state |-> "unreadable", columns |-> <<>>, rows |-> <<>>]

CsvFile(columns, rows) == [state |-> "ok", columns |-> columns, rows |-> rows]

NoLocals == [columns |-> <<>>]

\* no analyze_dataset call in flight beside main's own
ParIdle == [w \in 1..2 |-> [pc |-> "idle", an |-> NoLocals, record |-> None]]

\* no call of torque_baseline made yet
TorqueIdle ==
    [pc |-> "idle", depth_m |-> float(0), mu |-> float(0), r_m |-> float(0),
     fn_per_m |-> float(0), value |-> float(0)]

\* no analysis with a free reader in flight
ChkIdle ==
    [pc |-> "idle", file |-> MissingFile, an |-> NoLocals, fl |-> <<>>,
     done |-> <<>>, record |-> None]

\* no RollingZScoreDetector constructed yet
DetIdle ==
    [pc |-> "idle", self |-> RollingZScoreDetector(0, float(0), 0),
     calls |-> <<>>, returned |-> None]

\* run_mqtt not started yet
SvcIdle ==
    [pc |-> "idle", depth_m |-> None,
     detector |-> TorqueAnomalyDetector(float(0), float(0), float(0), float(0), 0, 0),
     handled |-> <<>>, published |-> <<>>]

MainStart ==
    /\ par = ParIdle
    /\ tq = TorqueIdle
    /\ det = DetIdle
    /\ svc = SvcIdle
    /\ chk = ChkIdle
    /\ m_pc = "start"
    /\ datasets = <<>>
    /\ cur = 1
    /\ results = <<>>
    /\ report = None
    /\ logs = <<>>
    /\ a_pc = "idle"
    /\ an = NoLocals

MainIdle ==
    /\ files = <<MissingFile, MissingFile, MissingFile>>
    /\ MainStart

\* the candidates of discover_datasets that exist, in candidate order
RECURSIVE existing(_, _)
existing(fs, i) ==
    IF i > Len(fs) THEN <<>>
    ELSE (IF fs[i].state # "missing" THEN <<i>> ELSE <<>>) \o existing(fs, i + 1)

RECURSIVE not_found_logs(_, _)
not_found_logs(fs, i) ==
    IF i > Len(fs) THEN <<>>
    ELSE (IF fs[i].state = "missing" THEN <<<<"Dataset not found (skipping)", i>>>>
          ELSE <<>>) \o not_found_logs(fs, i + 1)

\* a main that goes on to the report when discover_datasets found nothing
Discover_NoEarlyReturn ==
    /\ m_pc = "start"
    /\ datasets' = existing(files, 1)
    /\ logs' = logs \o not_found_logs(files, 1)
                    \o (IF files[1].state = "missing"
                        THEN <<<<"Primary dataset missing", 1>>>> ELSE <<>>)
    /\ m_pc' = "loop"
    /\ UNCHANGED <<files, cur, results, report, a_pc, an, statVars, findVars, parVars, tqVars, extVars>>

\* main lines 585-598 with discover_datasets
Discover ==
    /\ m_pc = "start"
    /\ datasets' = existing(files, 1)
    /\ logs' = logs \o not_found_logs(files, 1)
                    \o (IF files[1].state = "missing"
                        THEN <<<<"Primary dataset missing", 1>>>> ELSE <<>>)
                    \o (IF existing(files, 1) = <<>>
                        THEN <<<<"No datasets found", 0>>>> ELSE <<>>)
    /\ m_pc' = IF existing(files, 1) = <<>> THEN "no_datasets" ELSE "loop"
    /\ UNCHANGED <<files, cur, results, report, a_pc, an, statVars, findVars, parVars, tqVars, extVars>>

CurrentFile == files[datasets[cur]]

\* main lines 599-602 and analyze_dataset lines 361-379
OpenDataset ==
    /\ m_pc = "loop" /\ a_pc = "idle" /\ cur <= Len(datasets)
    /\ CurrentFile.state = "ok"
    /\ an' = analyze_locals(CurrentFile.columns)
    /\ a_pc' = "chunks"
    /\ logs' = Append(logs, <<"Analyzing", datasets[cur]>>)
    /\ UNCHANGED <<files, m_pc, datasets, cur, results, report, statVars, findVars, parVars, tqVars, extVars>>

\* a main that skips the dataset it cannot read and goes on
OpenFails_Skip ==
    /\ m_pc = "loop" /\ a_pc = "idle" /\ cur <= Len(datasets)
    /\ CurrentFile.state = "unreadable"
    /\ logs' = logs \o <<<<"Analyzing", datasets[cur]>>, <<"ERROR", datasets[cur]>>>>
    /\ cur' = cur + 1
    /\ UNCHANGED <<files, m_pc, datasets, results, report, a_pc, an, statVars, findVars, parVars, tqVars, extVars>>

\* analyze_dataset lines 361-365 raise; main lines 613-615 log and re-raise
OpenFails ==
    /\ m_pc = "loop" /\ a_pc = "idle" /\ cur <= Len(datasets)
    /\ CurrentFile.state = "unreadable"
    /\ logs' = logs \o <<<<"Analyzing", datasets[cur]>>, <<"ERROR", datasets[cur]>>>>
    /\ m_pc' = "raised"
    /\ UNCHANGED <<files, datasets, cur, results, report, a_pc, an, statVars, findVars, parVars, tqVars, extVars>>

\* read_csv(chunksize=CHUNK_SIZE): chunk number index of the file, CHUNK_SIZE
\* rows but for the last; a file without rows yields one empty chunk or none
next_chunk(file, index) ==
    SubSeq(file.rows, index * CHUNK_SIZE + 1,
           Min((index + 1) * CHUNK_SIZE, Len(file.rows)))

has_chunk(file, index) ==
    \/ index * CHUNK_SIZE < Len(file.rows)
    \/ Len(file.rows) = 0 /\ index = 0

\* analyze_dataset lines 381-403 (the heartbeat of lines 405-406 only logs)
ProcessChunk ==
    /\ m_pc = "loop" /\ a_pc = "chunks"
    /\ has_chunk(CurrentFile, an.index)
    /\ an' = process_chunk(an, next_chunk(CurrentFile, an.index))
    /\ UNCHANGED <<files, m_pc, datasets, cur, results, report, logs, a_pc,
                   statVars, findVars, parVars, tqVars, extVars>>

\* analyze_dataset lines 408-555 and main line 602
Finalize ==
    /\ m_pc = "loop" /\ a_pc = "chunks"
    /\ an.index * CHUNK_SIZE >= Len(CurrentFile.rows)
    /\ IF finalize_raises(an)
       THEN /\ m_pc' = "raised"
            /\ logs' = Append(logs, <<"ERROR", datasets[cur]>>)
            /\ UNCHANGED <<cur, results, a_pc, an>>
       ELSE /\ results' = Append(results, finalize(an, datasets[cur]))
            /\ cur' = cur + 1
            /\ a_pc' = "idle"
            /\ an' = NoLocals
            /\ UNCHANGED <<m_pc, logs>>
    /\ UNCHANGED <<files, datasets, report, statVars, findVars, parVars, tqVars, extVars>>

\* main lines 604-612; generated_at, the wall clock, is left out
WriteReport ==
    /\ m_pc = "loop" /\ a_pc = "idle" /\ cur > Len(datasets)
    /\ report' = Some([datasets |-> results])
    /\ m_pc' = "written"
    /\ logs' = Append(logs, <<"Wrote dataset quick stats", 0>>)
    /\ UNCHANGED <<files, datasets, cur, results, a_pc, an, statVars, findVars, parVars, tqVars, extVars>>

Next ==
    \/ Discover
    \/ OpenDataset
    \/ OpenFails
    \/ ProcessChunk
    \/ Finalize
    \/ WriteReport

-----------------------------------------------------------------------------
(* Spec: one dataset on disk, of any content within the bounds             *)

\* the most cells (rows times columns) a dataset of Spec holds
MaxCells == 6

Cells == {NA, NonNum, Num(-400), Num(400)}

\* the datasets with header h: rows of Len(h) cells, at most MaxCells cells
CsvFilesOf(h) ==
    {CsvFile(h, rows) :
        rows \in SeqsUpTo(SeqsOfLen(Cells, Len(h)), MaxCells \div Len(h))}

Init ==
    /\ \/ \E h \in Headers : \E f \in CsvFilesOf(h) :
              files = <<f, MissingFile, MissingFile>>
       \/ files = <<MissingFile, MissingFile, MissingFile>>
       \/ files = <<UnreadableFile, MissingFile, MissingFile>>
    /\ MainStart
    /\ StatIdle
    /\ FindIdle

Spec == Init /\ [][Next]_vars

-----------------------------------------------------------------------------
(* What a dataset holds, read off the file itself                          *)

\* the cells of one column of the file, in row order
FileColumn(file, col) ==
    [r \in 1..Len(file.rows) |-> file.rows[r][ColIndex(file.columns, col)]]

\* the first n cells of a column
Seen(file, col, n) == SubSeq(FileColumn(file, col), 1, n)

\* the rows the chunk loop has read after index chunks
RowsRead(file, index) == Min(index * CHUNK_SIZE, Len(file.rows))

Ended == m_pc \in {"written", "no_datasets", "raised"}

\* C2: the rows retained for duplicate detection are exactly the first
\* min(DUPLICATE_SAMPLE_ROWS, rows seen so far) rows of the dataset, in
\* arrival order; never more than the cap, and none added once it is reached.
C2_SampleIsCappedPrefix ==
    a_pc = "chunks" =>
        LET seen == RowsRead(CurrentFile, an.index)
            kept == concat(an.sample_frames)
        IN  /\ Len(kept) <= DUPLICATE_SAMPLE_ROWS
            /\ kept = SubSeq(CurrentFile.rows, 1, Min(DUPLICATE_SAMPLE_ROWS, seen))
            /\ an.sample_remaining = DUPLICATE_SAMPLE_ROWS - Len(kept)

\* the cap was reached inside a chunk and rows kept arriving after it
C2_Witness ==
    /\ a_pc = "chunks"
    /\ an.sample_remaining = 0
    /\ an.row_count > DUPLICATE_SAMPLE_ROWS
    /\ \E i \in 1..Len(an.sample_frames) :
           Len(an.sample_frames[i]) \notin {0, CHUNK_SIZE}

\* C3: the fit_score of every record is an integer from 0 to 100.
C3_FitScoreBounds ==
    \A i \in 1..Len(results) : results[i].fit_score \in 0..100

\* a record whose rule deltas sum below zero, so that the clamp acted
C3_Witness ==
    \E i \in 1..Len(results) :
        /\ results[i].fit_score = 0
        /\ Len(results[i].fit_score_notes) = 2
        /\ results[i].depth.negative_count > 0
        /\ results[i].fully_empty_rows > 0

\* C4: in every record, for every column, missing + non_null = rows with
\* 0 <= missing <= rows; missing_rate + non_null_rate = 1 when rows > 0, and
\* both rates are 0 when rows = 0.
C4_MissingnessIdentity ==
    \A i \in 1..Len(results) :
        LET r == results[i]
        IN  \A col \in Range(r.columns) :
                LET m == r.missingness[col]
                IN  /\ m.missing \in 0..r.rows
                    /\ m.missing + m.non_null = r.rows
                    /\ r.rows > 0 =>
                           RAdd(m.missing_rate, m.non_null_rate) = float(1)
                    /\ r.rows = 0 =>
                           m.missing_rate = float(0) /\ m.non_null_rate = float(0)

\* a column with empty cells, text cells and numbers
C4_Witness ==
    \E i \in 1..Len(results) :
        \E col \in Range(results[i].columns) :
            LET m == results[i].missingness[col]
            IN  /\ m.missing > 0
                /\ m.non_null > 1
                /\ col \in DOMAIN results[i].numeric_stats
                /\ results[i].numeric_stats[col].count < m.non_null

\* the number of cells of the column that are not empty
NonNullCells(file, col) ==
    Cardinality({r \in 1..Len(file.rows) : FileColumn(file, col)[r] # NA})

\* whether the column named by an optional name is resolved and more than
\* num/den of its cells are not empty
CoverageAbove(file, col, num, den) ==
    /\ col # None
    /\ Len(file.rows) > 0
    /\ den * NonNullCells(file, col[1]) > num * Len(file.rows)

EmptyRows(file) ==
    Cardinality({r \in 1..Len(file.rows) :
                    \A c \in 1..Len(file.columns) : file.rows[r][c] = NA})

HasNegativeDepth(file, depth_col) ==
    /\ depth_col # None
    /\ \E r \in 1..Len(file.rows) :
           LET cell == FileColumn(file, depth_col[1])[r]
           IN  IsNum(cell) /\ cell[2] < 0

\* the sum of the scoring table for a dataset, from the file
TableSum(file, std) ==
    (IF CoverageAbove(file, std.depth, 9, 10) THEN 30
     ELSE IF CoverageAbove(file, std.depth, 7, 10) THEN 15 ELSE 0)
    + (IF CoverageAbove(file, std.rop, 7, 10) THEN 20
       ELSE IF CoverageAbove(file, std.rop, 4, 10) THEN 10 ELSE 0)
    + (IF CoverageAbove(file, std.vibration, 7, 10) THEN 20
       ELSE IF CoverageAbove(file, std.vibration, 4, 10) THEN 10 ELSE 0)
    + (IF CoverageAbove(file, std.time, 5, 10) THEN 10 ELSE 0)
    - (IF Len(file.rows) > 0 /\ 10 * EmptyRows(file) > Len(file.rows) THEN 10 ELSE 0)
    - (IF HasNegativeDepth(file, std.depth) THEN 10 ELSE 0)

C5_WitnessStrict ==
    \E i \in 1..Len(results) :
        LET r == results[i]
        IN  /\ r.standard_columns.time # None
            /\ r.time.non_null_rate = Rat(1, 2)
            /\ \A k \in 1..Len(r.fit_score_notes) :
                   r.fit_score_notes[k] # "TIME coverage >50% (+10)"

\* the notes of the scoring rules that fire for a dataset, from the file,
\* in the order of the table
ExpectedNotes(file, std) ==
    (IF CoverageAbove(file, std.depth, 9, 10) THEN <<"Depth coverage >90% (+30)">>
     ELSE IF CoverageAbove(file, std.depth, 7, 10) THEN <<"Depth coverage >70% (+15)">>
     ELSE <<>>)
    \o (IF CoverageAbove(file, std.rop, 7, 10) THEN <<"ROP coverage >70% (+20)">>
        ELSE IF CoverageAbove(file, std.rop, 4, 10) THEN <<"ROP coverage >40% (+10)">>
        ELSE <<>>)
    \o (IF CoverageAbove(file, std.vibration, 7, 10)
        THEN <<"Vibration coverage >70% (+20)">>
        ELSE IF CoverageAbove(file, std.vibration, 4, 10)
        THEN <<"Vibration coverage >40% (+10)">>
        ELSE <<>>)
    \o (IF CoverageAbove(file, std.time, 5, 10) THEN <<"TIME coverage >50% (+10)">>
        ELSE <<>>)
    \o (IF Len(file.rows) > 0 /\ 10 * EmptyRows(file) > Len(file.rows)
        THEN <<"Fully empty rows >10% (-10)">> ELSE <<>>)
    \o (IF HasNegativeDepth(file, std.depth) THEN <<"Negative depth values (-10)">>
        ELSE <<>>)

\* the point delta a note names between its parentheses
NamedDelta(note) ==
    CASE note = "Depth coverage >90% (+30)" -> 30
      [] note = "Depth coverage >70% (+15)" -> 15
      [] note = "ROP coverage >70% (+20)" -> 20
      [] note = "ROP coverage >40% (+10)" -> 10
      [] note = "Vibration coverage >70% (+20)" -> 20
      [] note = "Vibration coverage >40% (+10)" -> 10
      [] note = "TIME coverage >50% (+10)" -> 10
      [] note = "Fully empty rows >10% (-10)" -> -10
      [] note = "Negative depth values (-10)" -> -10

\* the logical field or penalty a note is about
NoteField(note) ==
    CASE note \in {"Depth coverage >90% (+30)", "Depth coverage >70% (+15)"} -> "depth"
      [] note \in {"ROP coverage >70% (+20)", "ROP coverage >40% (+10)"} -> "rop"
      [] note \in {"Vibration coverage >70% (+20)",
                   "Vibration coverage >40% (+10)"} -> "vibration"
      [] note = "TIME coverage >50% (+10)" -> "time"
      [] note = "Fully empty rows >10% (-10)" -> "empty"
      [] note = "Negative depth values (-10)" -> "negative"

RECURSIVE NamedSum(_)
NamedSum(notes) ==
    IF notes = <<>> THEN 0 ELSE NamedDelta(Head(notes)) + NamedSum(Tail(notes))

\* C24: fit_score_notes holds one entry for each scoring rule that fired and
\* none for a rule that did not, in the order of the table (depth, ROP,
\* vibration, time, empty rows, negative depth), at most one entry per
\* logical field; the sum of the deltas the notes name, clamped to 0..100,
\* is fit_score.
C24_NotesAreFiredRules ==
    \A i \in 1..Len(results) :
        LET r == results[i]
            notes == r.fit_score_notes
            S == NamedSum(notes)
        IN  /\ notes = ExpectedNotes(files[r.path], r.standard_columns)
            /\ \A j, k \in 1..Len(notes) :
                   j # k => NoteField(notes[j]) # NoteField(notes[k])
            /\ r.fit_score = (IF S < 0 THEN 0 ELSE IF S > 100 THEN 100 ELSE S)

\* a record with a lower-tier note, a penalty note and a positive score
C24_Witness ==
    \E i \in 1..Len(results) :
        /\ results[i].fit_score_notes =
               <<"Depth coverage >90% (+30)", "ROP coverage >40% (+10)",
                 "Negative depth values (-10)">>
        /\ results[i].fit_score = 30

\* inside the chunk loop: row_count is the number of rows of the chunks read
\* so far, and for every column
\* 0 <= fully_empty_rows <= missing_counts[column] <= row_count
CountersOrdered ==
    /\ an.row_count = RowsRead(CurrentFile, an.index)
    /\ \A col \in Range(an.columns) :
           /\ 0 <= an.fully_empty_rows
           /\ an.fully_empty_rows <= an.missing_counts[col]
           /\ an.missing_counts[col] <= an.row_count

\* C27: after every chunk row_count is the sum of the lengths of the chunks
\* seen so far and, for every column, 0 <= fully_empty_rows <=
\* missing_counts[column] <= row_count; none of the counters ever decreases
\* during the loop.
C27_CountersOrderedAndMonotone ==
    [][a_pc' = "chunks" =>
           /\ CountersOrdered'
           /\ a_pc = "chunks" =>
                  /\ an'.row_count >= an.row_count
                  /\ an'.fully_empty_rows >= an.fully_empty_rows
                  /\ \A col \in Range(an.columns) :
                         an'.missing_counts[col] >= an.missing_counts[col]]_vars

\* after two chunks of a dataset of two columns the three counters of its
\* first column are strictly ordered
C27_Witness ==
    /\ a_pc = "chunks"
    /\ an.index = 2
    /\ Len(an.columns) = 2
    /\ 0 < an.fully_empty_rows
    /\ an.fully_empty_rows < an.missing_counts[an.columns[1]]
    /\ an.missing_counts[an.columns[1]] < an.row_count
    /\ an.row_count = CHUNK_SIZE + 1

\* C8: a dataset with a header and no rows yields a record with rows = 0,
\* every rate 0.0, an empty numeric_stats and fit_score 0, and no division
\* by zero is raised.
C8_EmptyDataset ==
    /\ \A i \in 1..Len(results) :
           LET r == results[i]
           IN  r.rows = 0 =>
                   /\ Len(files[r.path].rows) = 0
                   /\ \A col \in Range(r.columns) :
                          /\ r.missingness[col].missing_rate = float(0)
                          /\ r.missingness[col].non_null_rate = float(0)
                   /\ r.fully_empty_row_pct = float(0)
                   /\ r.duplicate_sample.duplicate_rate = float(0)
                   /\ DOMAIN r.numeric_stats = {}
                   /\ r.fit_score = 0
    /\ (a_pc = "chunks" /\ Len(CurrentFile.rows) = 0) => m_pc # "raised"
    /\ (m_pc = "written" /\ Len(datasets) = 1 /\ Len(files[datasets[1]].rows) = 0) =>
           Len(results) = 1 /\ results[1].rows = 0

\* the record of a dataset without rows whose reader yielded one empty chunk
C8_Witness ==
    \E i \in 1..Len(results) :
        /\ results[i].rows = 0
        /\ results[i].duplicate_sample.method = "first_rows"
        /\ results[i].duplicate_sample.sample_rows = 0

\* C9: present text is neither merged into the column's RunningStat nor
\* counted as missing; only empty cells are.  So numeric count + missing
\* count <= rows, with equality exactly when no present cell is text.
C9_TextIsNeitherNumericNorMissing ==
    a_pc = "chunks" =>
        \A col \in Range(an.columns) :
            LET seen == Seen(CurrentFile, col, RowsRead(CurrentFile, an.index))
                count == an.numeric_stats[col].count
                missing == an.missing_counts[col]
            IN  /\ missing = Cardinality({r \in 1..Len(seen) : seen[r] = NA})
                /\ count = Cardinality({r \in 1..Len(seen) : IsNum(seen[r])})
                /\ count + missing <= an.row_count
                /\ (count + missing = an.row_count) <=>
                       (\A r \in 1..Len(seen) : seen[r] # NonNum)

\* a column that has held text, an empty cell and a number, over two chunks
C9_Witness ==
    /\ a_pc = "chunks"
    /\ an.index >= 2
    /\ \E col \in Range(an.columns) :
           /\ an.missing_counts[col] > 0
           /\ an.numeric_stats[col].count > 0
           /\ an.numeric_stats[col].count + an.missing_counts[col] < an.row_count

\* the sub-records of a logical field that has no column
NoDepth == [column |-> None, min |-> None, max |-> None, negative_count |-> 0]

NoRop == [column |-> None, min |-> None, max |-> None, mean |-> None, std |-> None]

NoVibration ==
    [column |-> None, min |-> None, max |-> None, mean |-> None, std |-> None,
     expected_range |-> None, out_of_range_count |-> 0]

NoTime == [column |-> None, non_null_rate |-> float(0)]

\* C10, as the claim states it: a logical field without a matching column
\* has no entry in the record (no null-filled or zero-defaulted entry).
C10_UnresolvedIsOmitted ==
    \A i \in 1..Len(results) :
        LET r == results[i]
        IN  /\ r.standard_columns.depth = None => r.depth \notin {NoDepth}
            /\ r.standard_columns.rop = None => r.rop \notin {NoRop}
            /\ r.standard_columns.vibration = None => r.vibration \notin {NoVibration}
            /\ r.standard_columns.time = None => r.time \notin {NoTime}

\* C10, amended: a logical field without a matching column never makes the
\* analysis fail; the record still carries its sub-record, with column None,
\* every aggregate None and every counter and rate zero, and the field earns
\* no point and raises no flag.
C10_UnresolvedIsDefaulted ==
    /\ \A i \in 1..Len(results) :
           LET r == results[i]
               Noted(note) == \E k \in 1..Len(r.fit_score_notes) : r.fit_score_notes[k] = note
               Flagged(flag) == \E k \in 1..Len(r.unit_flags) : r.unit_flags[k] = flag
           IN  /\ r.standard_columns.depth = None =>
                      /\ r.depth = NoDepth
                      /\ ~Noted("Depth coverage >90% (+30)")
                      /\ ~Noted("Depth coverage >70% (+15)")
                      /\ ~Noted("Negative depth values (-10)")
                      /\ ~Flagged("Negative depth values detected")
               /\ r.standard_columns.rop = None =>
                      /\ r.rop = NoRop
                      /\ ~Noted("ROP coverage >70% (+20)")
                      /\ ~Noted("ROP coverage >40% (+10)")
                      /\ ~Flagged("ROP max exceeds 300 m/h (unit check)")
                      /\ ~Flagged("ROP mean is extremely low (possible unit mismatch)")
               /\ r.standard_columns.vibration = None =>
                      /\ r.vibration = NoVibration
                      /\ ~Noted("Vibration coverage >70% (+20)")
                      /\ ~Noted("Vibration coverage >40% (+10)")
                      /\ ~Flagged("Vibration values outside expected 0-5 range")
               /\ r.standard_columns.time = None =>
                      /\ r.time = NoTime
                      /\ ~Noted("TIME coverage >50% (+10)")
    /\ m_pc = "raised" => CurrentFile.state = "unreadable"
    /\ m_pc = "written" => Len(results) = Len(datasets)

\* the record of a dataset with numbers in it and no depth, ROP, vibration
\* or time column
C10_Witness ==
    \E i \in 1..Len(results) :
        LET r == results[i]
        IN  /\ r.standard_columns =
                   [depth |-> None, rop |-> None, vibration |-> None, time |-> None]
            /\ DOMAIN r.numeric_stats # {}
            /\ r.rows > 1

\* whether the record r carries the unit-sanity flag
HasFlag(r, flag) == \E k \in 1..Len(r.unit_flags) : r.unit_flags[k] = flag

\* the number of cells of the column that parse as a number satisfying P
NumericCellsWhere(file, col, P(_)) ==
    Cardinality({r \in 1..Len(file.rows) :
                    LET cell == FileColumn(file, col)[r]
                    IN  IsNum(cell) /\ P(cell[2])})

\* C12: with the depth column resolved, depth.negative_count is the number
\* of depth cells of the whole dataset that parse as a number below 0, and
\* the negative-depth flag is present exactly when that count is above 0.
C12_NegativeDepthCount ==
    \A i \in 1..Len(results) :
        LET r == results[i]
            depth_col == r.standard_columns.depth
        IN  /\ depth_col # None =>
                   r.depth.negative_count =
                       NumericCellsWhere(files[r.path], depth_col[1], LAMBDA v : v < 0)
            /\ HasFlag(r, "Negative depth values detected") <=> r.depth.negative_count > 0

\* negative depths counted in more than one chunk, beside an empty cell, a
\* text cell and a positive depth
C12_Witness ==
    \E i \in 1..Len(results) :
        LET r == results[i]
            depth_col == r.standard_columns.depth
        IN  /\ depth_col # None
            /\ r.rows > 2 * CHUNK_SIZE
            /\ r.depth.negative_count = 2
            /\ FileColumn(files[r.path], depth_col[1])[1] = Num(-400)
            /\ FileColumn(files[r.path], depth_col[1])[r.rows] = Num(-400)
            /\ r.missingness[depth_col[1]].missing > 0
            /\ r.numeric_stats[depth_col[1]].count = 3
            /\ r.missingness[depth_col[1]].non_null > 3
            /\ HasFlag(r, "Negative depth values detected")

\* the numbers of the column named by a resolved optional name, in row order
NumbersOf(file, col) ==
    IF col = None THEN <<>> ELSE to_numeric_dropna(FileColumn(file, col[1]))

\* C15: each unit-sanity flag is decided by its own condition on the
\* dataset, whatever the other flags: negative depth iff a depth below 0 was
\* counted; ROP max iff ROP has numbers and their maximum exceeds 300; ROP
\* mean iff ROP has numbers and their mean is below 0.01; vibration iff a
\* vibration value outside the range was counted.
C15_FlagsIndependent ==
    \A i \in 1..Len(results) :
        LET r == results[i]
            std == r.standard_columns
            rop == NumbersOf(files[r.path], std.rop)
            vib == NumbersOf(files[r.path], std.vibration)
            range == r.vibration.expected_range
        IN  /\ HasFlag(r, "Negative depth values detected")
                   <=> (\E k \in 1..Len(NumbersOf(files[r.path], std.depth)) :
                            NumbersOf(files[r.path], std.depth)[k] < 0)
            /\ HasFlag(r, "ROP max exceeds 300 m/h (unit check)")
                   <=> (\E k \in 1..Len(rop) : rop[k] > 300)
            /\ HasFlag(r, "ROP mean is extremely low (possible unit mismatch)")
                   <=> (Len(rop) > 0 /\ 100 * SeqSum(rop) < Len(rop))
            /\ HasFlag(r, "Vibration values outside expected 0-5 range")
                   <=> (range # None /\ \E k \in 1..Len(vib) :
                            vib[k] < range[1][1] \/ vib[k] > range[1][2])
            /\ Len(r.unit_flags) <= 4

\* a dataset on which all four flags are present together
C15_Witness ==
    \E i \in 1..Len(results) :
        /\ Len(results[i].unit_flags) = 4
        /\ HasFlag(results[i], "Negative depth values detected")
        /\ HasFlag(results[i], "ROP max exceeds 300 m/h (unit check)")
        /\ HasFlag(results[i], "ROP mean is extremely low (possible unit mismatch)")
        /\ HasFlag(results[i], "Vibration values outside expected 0-5 range")

\* C16: duplicate_rows is the number of retained rows equal in every column
\* to an earlier retained row, that is the retained rows less the distinct
\* ones; duplicate_rate is duplicate_rows / sample_rows, and 0.0 for an empty
\* sample; so duplicate_rows <= sample_rows - 1 when sample_rows >= 1.
C16_DuplicateRows ==
    \A i \in 1..Len(results) :
        LET r == results[i]
            d == r.duplicate_sample
            n == Min(DUPLICATE_SAMPLE_ROWS, Len(files[r.path].rows))
            sample == SubSeq(files[r.path].rows, 1, n)
        IN  /\ d.sample_rows = n
            /\ d.duplicate_rows = n - Cardinality(Range(sample))
            /\ d.duplicate_rate =
                   (IF n = 0 THEN float(0) ELSE Rat(d.duplicate_rows, n))
            /\ n >= 1 => d.duplicate_rows <= n - 1

\* the third retained row repeats the first and not the second, and a row
\* beyond the cap repeats the second without being counted
C16_Witness ==
    \E i \in 1..Len(results) :
        LET r == results[i]
            rows == files[r.path].rows
        IN  /\ Len(rows) > DUPLICATE_SAMPLE_ROWS
            /\ r.duplicate_sample.sample_rows = DUPLICATE_SAMPLE_ROWS
            /\ r.duplicate_sample.duplicate_rows = 1
            /\ rows[3] = rows[1]
            /\ rows[2] # rows[1]
            /\ rows[DUPLICATE_SAMPLE_ROWS + 1] = rows[2]

\* C18: numeric_stats has an entry for a column exactly when at least one
\* cell of the column parsed as a number; a column without any number is
\* absent, not present with null or zero values.
C18_NumericStatsPresence ==
    \A i \in 1..Len(results) :
        LET r == results[i]
        IN  /\ DOMAIN r.numeric_stats \subseteq Range(r.columns)
            /\ \A col \in Range(r.columns) :
                   /\ col \in DOMAIN r.numeric_stats
                          <=> NumericCellsWhere(files[r.path], col, LAMBDA v : TRUE) > 0
                   /\ col \in DOMAIN r.numeric_stats =>
                          /\ r.numeric_stats[col].count =
                                 NumericCellsWhere(files[r.path], col, LAMBDA v : TRUE)
                          /\ r.numeric_stats[col].min # None
                          /\ r.numeric_stats[col].max # None

\* a record with a summarized column beside a column that holds rows of
\* text and empty cells and no number
C18_Witness ==
    \E i \in 1..Len(results) :
        LET r == results[i]
        IN  \E c1, c2 \in Range(r.columns) :
                /\ c1 \in DOMAIN r.numeric_stats
                /\ c2 \notin DOMAIN r.numeric_stats
                /\ r.missingness[c2].missing > 0
                /\ r.missingness[c2].non_null > 0

-----------------------------------------------------------------------------
(* SpecVib: one dataset of a single column, a vibration column or not      *)

\* the most rows a dataset of SpecVib holds
MaxVibRows == 3

VibCells == {NA, NonNum, Num(-1), Num(0), Num(3), Num(5), Num(6)}

VibFilesOf(h) ==
    {CsvFile(h, rows) : rows \in SeqsUpTo(SeqsOfLen(VibCells, 1), MaxVibRows)}

InitVib ==
    /\ \/ \E h \in VibHeaders : \E f \in VibFilesOf(h) :
              files = <<f, MissingFile, MissingFile>>
       \/ files = <<MissingFile, MissingFile, MissingFile>>
       \/ files = <<UnreadableFile, MissingFile, MissingFile>>
    /\ MainStart
    /\ StatIdle
    /\ FindIdle

SpecVib == InitVib /\ [][Next]_vars

\* C13: with the vibration column resolved and a range [lo, hi] derived,
\* vibration.out_of_range_count is the number of vibration cells that parse
\* as a number below lo or above hi (the limits themselves, empty cells and
\* text are not counted); without a range the count stays 0; the vibration
\* flag is present exactly when the count is above 0.
C13_OutOfRangeCount ==
    \A i \in 1..Len(results) :
        LET r == results[i]
            vibration_col == r.standard_columns.vibration
            range == r.vibration.expected_range
        IN  /\ (vibration_col # None /\ range # None) =>
                   r.vibration.out_of_range_count =
                       NumericCellsWhere(files[r.path], vibration_col[1],
                                         LAMBDA v : v < range[1][1] \/ v > range[1][2])
            /\ range = None => r.vibration.out_of_range_count = 0
            /\ HasFlag(r, "Vibration values outside expected 0-5 range")
                   <=> r.vibration.out_of_range_count > 0

\* a ranged vibration column holding both limits and one value above the range
C13_Witness ==
    \E i \in 1..Len(results) :
        LET r == results[i]
        IN  /\ r.vibration.expected_range = Some(<<0, 5>>)
            /\ files[r.path].rows = <<<<Num(0)>>, <<Num(5)>>, <<Num(6)>>>>
            /\ r.vibration.out_of_range_count = 1
            /\ HasFlag(r, "Vibration values outside expected 0-5 range")

\* a vibration column without a range: values beyond 0..5 are not counted
C13_WitnessNoRange ==
    \E i \in 1..Len(results) :
        LET r == results[i]
        IN  /\ r.standard_columns.vibration # None
            /\ r.vibration.expected_range = None
            /\ files[r.path].rows = <<<<Num(-1)>>, <<Num(6)>>, <<NA>>>>
            /\ r.vibration.out_of_range_count = 0
            /\ r.unit_flags = <<>>

\* C14, as the claim states it: the expected range is [0, 5] when the
\* resolved vibration column's normalized name contains "vibration" and not
\* "raw", and there is no range in every other case.
C14_RangeIffVibrationNotRaw ==
    \A i \in 1..Len(results) :
        LET r == results[i]
            vibration_col == r.standard_columns.vibration
        IN  r.vibration.expected_range =
                IF /\ vibration_col # None
                   /\ IsSubstring(k_vibration, normalize_name(vibration_col[1]))
                   /\ ~IsSubstring(k_raw, normalize_name(vibration_col[1]))
                THEN Some(<<0, 5>>)
                ELSE None

\* the record of a dataset whose vibration column is RAW_VIBRATION_0_5: the
\* name contains "raw" and the range 0..5 is enforced
C14_RawCanonicalHasRange ==
    \E i \in 1..Len(results) :
        /\ results[i].standard_columns.vibration = Some(s_RAW_VIBRATION_0_5)
        /\ results[i].vibration.expected_range = Some(<<0, 5>>)

k_proxy == <<"p", "r", "o", "x", "y">>

\* C23, as the claim states it: no range is enforced on a raw or on a proxy
\* vibration column: a record whose resolved vibration column is named
\* VIBRATION_RAW or VIBRATION_PROXY, or any name containing "raw" or
\* "proxy", has no expected_range, so none of its values is out of range.
C23_NoRangeForRawAndProxy ==
    \A i \in 1..Len(results) :
        LET r == results[i]
            vibration_col == r.standard_columns.vibration
        IN  (/\ vibration_col # None
             /\ \/ vibration_col[1] \in {s_VIBRATION_RAW, s_VIBRATION_PROXY}
                \/ IsSubstring(k_raw, normalize_name(vibration_col[1]))
                \/ IsSubstring(k_proxy, normalize_name(vibration_col[1])))
            => /\ r.vibration.expected_range = None
               /\ r.vibration.out_of_range_count = 0

\* the record of a dataset whose vibration column is VIBRATION_PROXY: the
\* range 0..5 is enforced and the value 6 is counted and flagged
C23_ProxyHasRange ==
    \E i \in 1..Len(results) :
        LET r == results[i]
        IN  /\ r.standard_columns.vibration = Some(s_VIBRATION_PROXY)
            /\ r.vibration.expected_range = Some(<<0, 5>>)
            /\ files[r.path].rows = <<<<Num(6)>>>>
            /\ r.vibration.out_of_range_count = 1
            /\ HasFlag(r, "Vibration values outside expected 0-5 range")

\* the record of a dataset whose vibration column is VIBRATION_RAW has no
\* range
C23_RawHasNoRange ==
    \E i \in 1..Len(results) :
        /\ results[i].standard_columns.vibration = Some(s_VIBRATION_RAW)
        /\ results[i].vibration.expected_range = None

-----------------------------------------------------------------------------
(* SpecMain: three candidate datasets, each missing, unreadable or small   *)

\* the most rows a dataset of SpecMain holds
MainMaxRows == 2

MainCells == {NA, Num(-400)}

MainFiles ==
    {CsvFile(<<s_BIT_DEPTH>>, rows) :
        rows \in SeqsUpTo(SeqsOfLen(MainCells, 1), MainMaxRows)}
    \cup {MissingFile, UnreadableFile}

InitMain ==
    /\ files \in [1..3 -> MainFiles]
    /\ MainStart
    /\ StatIdle
    /\ FindIdle

SpecMain == InitMain /\ [][Next]_vars

Unreadable == {i \in 1..Len(files) : files[i].state = "unreadable"}

Readable == {i \in 1..Len(files) : files[i].state = "ok"}

Logged(entry) == \E k \in 1..Len(logs) : logs[k] = entry

\* the members of the set of places S, in candidate order
RECURSIVE InOrder(_)
InOrder(S) ==
    IF S = {} THEN <<>>
    ELSE LET least == CHOOSE u \in S : \A v \in S : u <= v
         IN  <<least>> \o InOrder(S \ {least})

\* C7, as the claim states it: a dataset that cannot be opened is skipped,
\* the batch is never aborted, and every remaining dataset is analyzed and
\* included in the report.
C7_UnreadableIsSkipped ==
    (Ended /\ Unreadable # {}) =>
        /\ m_pc # "raised"
        /\ \A i \in Readable :
               /\ report # None
               /\ \E k \in 1..Len(report[1].datasets) : report[1].datasets[k].path = i

\* C7, amended: a dataset whose file does not exist is skipped with a
\* diagnostic and every dataset that exists is still analyzed; a dataset that
\* exists and cannot be opened makes main log the error and raise: the
\* datasets after it are not analyzed and no report is written.
C7_MissingSkippedUnreadableAborts ==
    Ended =>
        LET first_bad == CHOOSE u \in Unreadable : \A v \in Unreadable : u <= v
            paths == [k \in 1..Len(results) |-> results[k].path]
        IN  /\ \A i \in 1..Len(files) :
                   files[i].state = "missing" <=> Logged(<<"Dataset not found (skipping)", i>>)
            /\ IF Unreadable # {}
               THEN /\ m_pc = "raised"
                    /\ report = None
                    /\ logs[Len(logs)] = <<"ERROR", first_bad>>
                    /\ paths = InOrder({i \in Readable : i < first_bad})
               ELSE IF Readable = {}
               THEN m_pc = "no_datasets" /\ report = None
               ELSE /\ m_pc = "written"
                    /\ report = Some([datasets |-> results])
                    /\ paths = InOrder(Readable)

\* the batch stopped at an unreadable dataset with a readable one after it
C7_Witness ==
    /\ m_pc = "raised"
    /\ report = None
    /\ Len(results) = 1
    /\ \E i \in Unreadable : \E j \in Readable : i < j

\* C11, as the claim states it: when every dataset is missing or unreadable
\* the run completes and the caller receives a report with an empty datasets
\* list.
C11_EmptyReportWhenNoneReadable ==
    (Ended /\ Readable = {}) =>
        /\ m_pc = "written"
        /\ report = Some([datasets |-> <<>>])

\* C11, amended: when every dataset is missing, main logs that no datasets
\* were found and returns without writing a report; when no dataset is
\* readable and one exists, main raises at the first of them; in both cases
\* no record is produced and no report is written.
C11_NoReportWhenNoneReadable ==
    (Ended /\ Readable = {}) =>
        /\ report = None
        /\ results = <<>>
        /\ IF Unreadable = {}
           THEN /\ m_pc = "no_datasets"
                /\ logs[Len(logs)] = <<"No datasets found", 0>>
           ELSE /\ m_pc = "raised"
                /\ logs[Len(logs)] =
                       <<"ERROR", CHOOSE u \in Unreadable : \A v \in Unreadable : u <= v>>

\* the run returned early: every candidate is missing and nothing was written
C11_Witness ==
    /\ m_pc = "no_datasets"
    /\ \A i \in 1..Len(files) : files[i].state = "missing"
    /\ report = None

\* the run raised with no readable dataset at all
C11_WitnessRaised ==
    /\ m_pc = "raised"
    /\ Readable = {}
    /\ report = None

-----------------------------------------------------------------------------
(* SpecPar: two analyze_dataset calls whose chunk steps interleave, each    *)
(* call with the locals it created at lines 365-379                        *)

\* the most rows a dataset of SpecPar holds
ParMaxRows == 3

ParCells == {NA, Num(-400)}

ParFiles ==
    {CsvFile(<<s_BIT_DEPTH>>, rows) :
        rows \in SeqsUpTo(SeqsOfLen(ParCells, 1), ParMaxRows)}

InitPar ==
    /\ \E f1 \in ParFiles : \E f2 \in ParFiles : files = <<f1, f2>>
    /\ MainStart
    /\ StatIdle
    /\ FindIdle

\* lines 361-379: call w creates its locals
ParOpen(w) ==
    /\ par[w].pc = "idle"
    /\ par' = [par EXCEPT ![w] = [pc |-> "chunks",
                                  an |-> analyze_locals(files[w].columns),
                                  record |-> None]]
    /\ UNCHANGED <<mainVars, statVars, findVars, tqVars, extVars>>

\* a chunk step that counts the rows of both calls in one shared row_count
ParChunk_SharedRowCount(w) ==
    /\ par[w].pc = "chunks"
    /\ has_chunk(files[w], par[w].an.index)
    /\ LET other == 3 - w
           shared == IF par[other].pc = "chunks" THEN par[other].an.row_count ELSE 0
           mine == [par[w].an EXCEPT !.row_count = @ + shared]
       IN  par' = [par EXCEPT ![w].an =
                       process_chunk(mine, next_chunk(files[w], par[w].an.index))]
    /\ UNCHANGED <<mainVars, statVars, findVars, tqVars, extVars>>

\* lines 381-403: call w handles its next chunk
ParChunk(w) ==
    /\ par[w].pc = "chunks"
    /\ has_chunk(files[w], par[w].an.index)
    /\ par' = [par EXCEPT ![w].an =
                   process_chunk(@, next_chunk(files[w], par[w].an.index))]
    /\ UNCHANGED <<mainVars, statVars, findVars, tqVars, extVars>>

\* lines 408-555: call w returns its record
ParFinalize(w) ==
    /\ par[w].pc = "chunks"
    /\ par[w].an.index * CHUNK_SIZE >= Len(files[w].rows)
    /\ par' = [par EXCEPT ![w] =
                   IF finalize_raises(par[w].an)
                   THEN [pc |-> "raised", an |-> par[w].an, record |-> None]
                   ELSE [pc |-> "done", an |-> NoLocals,
                         record |-> Some(finalize(par[w].an, w))]]
    /\ UNCHANGED <<mainVars, statVars, findVars, tqVars, extVars>>

NextPar == \E w \in 1..2 : ParOpen(w) \/ ParChunk(w) \/ ParFinalize(w)

SpecPar == InitPar /\ [][NextPar]_vars

\* the locals of an analysis of the file run alone, after its first k chunks
RECURSIVE chunks_folded(_, _, _)
chunks_folded(L, file, k) ==
    IF L.index >= k THEN L
    ELSE chunks_folded(process_chunk(L, next_chunk(file, L.index)), file, k)

AloneAfter(file, k) == chunks_folded(analyze_locals(file.columns), file, k)

\* the numbers of chunks the reader can yield for the file
ChunkCounts(file) ==
    IF Len(file.rows) = 0 THEN {0, 1}
    ELSE {(Len(file.rows) + CHUNK_SIZE - 1) \div CHUNK_SIZE}

C19_WitnessDone ==
    /\ par[1].pc = "done"
    /\ par[2].pc = "chunks" /\ par[2].an.index = 1 /\ has_chunk(files[2], 1)
    /\ par[1].record[1].rows > CHUNK_SIZE

-----------------------------------------------------------------------------
(* SpecSplit: one analyze_dataset call whose reader cuts the rows into      *)
(* consecutive chunks of any sizes; beside the locals, whose RunningStats   *)
(* are exact, the call carries the same RunningStats in floating point      *)

\* the most cells (rows times columns) a dataset of SpecSplit holds
SplitMaxCells == 4

SplitCells == {NA, Num(-3), Num(0), Num(3)}

SplitFiles ==
    UNION {{CsvFile(h, rows) :
               rows \in SeqsUpTo(SeqsOfLen(SplitCells, Len(h)),
                                 SplitMaxCells \div Len(h)) \ {<<>>}} :
           h \in SplitHeaders}

InitSplit ==
    /\ MainIdle
    /\ StatIdle
    /\ FindIdle

\* lines 361-379: the call creates its locals
ChkOpen ==
    /\ chk.pc = "idle"
    /\ \E f \in SplitFiles :
           chk' = [pc |-> "chunks", file |-> f, an |-> analyze_locals(f.columns),
                   fl |-> [col \in Range(f.columns) |-> RunningStat],
                   done |-> <<>>, record |-> None]
    /\ UNCHANGED <<mainVars, statVars, findVars, parVars, tqVars, detVars, svcVars>>

\* lines 385-387 in floating point: numeric_stats[col].update(chunk[col])
update_all_fl(stats, columns, chunk) ==
    [col \in Range(columns) |->
        RunningStat_update_fl(stats[col], Column(chunk, columns, col))]

\* a chunk step that starts the RunningStats over with every chunk
chk_chunk_LastChunkOnly(c, chunk) ==
    [c EXCEPT !.an = process_chunk([c.an EXCEPT !.numeric_stats =
                                        analyze_locals(c.file.columns).numeric_stats],
                                   chunk),
              !.fl = update_all_fl(@, c.file.columns, chunk)]

\* lines 381-403 for one chunk
chk_chunk(c, chunk) ==
    [c EXCEPT !.an = process_chunk(@, chunk),
              !.fl = update_all_fl(@, c.file.columns, chunk)]

\* the reader yields the next  k  rows as a chunk, for any k
SplitChunk ==
    /\ chk.pc = "chunks"
    /\ \E k \in 1..(Len(chk.file.rows) - chk.an.row_count) :
           LET first == chk.an.row_count + 1
               chunk == SubSeq(chk.file.rows, first, first + k - 1)
           IN  chk' = [chk_chunk(chk, chunk) EXCEPT
                           !.done = Append(@, <<first, k>>)]
    /\ UNCHANGED <<mainVars, statVars, findVars, parVars, tqVars, detVars, svcVars>>

\* lines 408-555: the call returns its record
ChkFinalize ==
    /\ chk.pc = "chunks"
    /\ chk.an.row_count = Len(chk.file.rows)
    /\ chk' = IF finalize_raises(chk.an)
              THEN [chk EXCEPT !.pc = "raised"]
              ELSE [chk EXCEPT !.pc = "done",
                               !.record = Some(finalize(chk.an, 1))]
    /\ UNCHANGED <<mainVars, statVars, findVars, parVars, tqVars, detVars, svcVars>>

NextSplit ==
    \/ ChkOpen
    \/ SplitChunk
    \/ ChkFinalize

SpecSplit == InitSplit /\ [][NextSplit]_vars

\* the locals after the whole file went through the loop as a single chunk
OneChunk(file) == process_chunk(analyze_locals(file.columns), file.rows)

\* the floating-point RunningStat of a column fed as a single batch
OneChunkFl(file, col) == RunningStat_update_fl(RunningStat, FileColumn(file, col))

\* everything of the record and of the locals behind it that does not pass
\* through a rounded merge is what the single chunk gives: the counters, the
\* retained sample, count, min and max, the flags, the score and its notes
SameButMeanAndM2 ==
    LET one == OneChunk(chk.file)
    IN  /\ chk.an.row_count = one.row_count
        /\ chk.an.missing_counts = one.missing_counts
        /\ chk.an.fully_empty_rows = one.fully_empty_rows
        /\ chk.an.depth_negative = one.depth_negative
        /\ chk.an.vibration_out_of_range = one.vibration_out_of_range
        /\ concat(chk.an.sample_frames) = concat(one.sample_frames)
        /\ chk.record = Some(finalize(one, 1))
        /\ \A col \in Range(chk.file.columns) :
               /\ chk.fl[col].count = OneChunkFl(chk.file, col).count
               /\ chk.fl[col].min_value = OneChunkFl(chk.file, col).min_value
               /\ chk.fl[col].max_value = OneChunkFl(chk.file, col).max_value
               /\ chk.an.numeric_stats[col] = one.numeric_stats[col]

\* C25, as the claim states it: for a fixed header and fixed rows the whole
\* record, the mean and M2 of every column included, is the same for every
\* way of splitting the rows into consecutive chunks.
C25_SameForEverySplit ==
    chk.pc = "done" =>
        /\ SameButMeanAndM2
        /\ \A col \in Range(chk.file.columns) :
               /\ chk.fl[col].mean = OneChunkFl(chk.file, col).mean
               /\ chk.fl[col].m2 = OneChunkFl(chk.file, col).m2

\* C25, amended: for every way of splitting the rows into consecutive
\* chunks the call ends without raising, and rows, the missing counts,
\* fully_empty_rows, negative_count, out_of_range_count, each column's
\* count, min and max, the retained sample and its duplicate count, the
\* unit flags, fit_score and its notes are those of the single chunk; mean
\* and M2 are those of the single chunk in exact arithmetic, and in floating
\* point the mean is the exact mean up to rounding only.
C25_SameUpToRounding ==
    /\ chk.pc # "raised"
    /\ chk.pc = "done" =>
           /\ SameButMeanAndM2
           /\ \A col \in Range(chk.file.columns) :
                  LET values == to_numeric_dropna(FileColumn(chk.file, col))
                  IN  values # <<>> =>
                          ~RLess(Rat(2 * Len(values) * MaxAbs(values), Pow2(FLOAT_BITS)),
                                 RAbs(RSub(chk.fl[col].mean, series_mean(values))))

\* a dataset cut into three chunks whose floating-point mean is not the
\* mean of the single chunk
C25_Witness ==
    /\ chk.pc = "done"
    /\ Len(chk.done) = 3
    /\ \E col \in Range(chk.file.columns) :
           /\ chk.fl[col].count >= 3
           /\ chk.fl[col].mean # OneChunkFl(chk.file, col).mean

-----------------------------------------------------------------------------
(* SpecOrder: one analyze_dataset call whose reader hands over the chunks   *)
(* of read_csv(chunksize=CHUNK_SIZE) in any order                           *)

\* the places of the chunks of the file, from 0
ChunkPlaces(file) == 0..(((Len(file.rows) + CHUNK_SIZE - 1) \div CHUNK_SIZE) - 1)

\* the reader yields any chunk it has not yielded yet
OrderChunk ==
    /\ chk.pc = "chunks"
    /\ \E place \in ChunkPlaces(chk.file) :
           LET chunk == next_chunk(chk.file, place)
               first == place * CHUNK_SIZE + 1
           IN  /\ \A k \in 1..Len(chk.done) : chk.done[k][1] # first
               /\ chk' = [chk_chunk(chk, chunk) EXCEPT
                              !.done = Append(@, <<first, Len(chunk)>>)]
    /\ UNCHANGED <<mainVars, statVars, findVars, parVars, tqVars, detVars, svcVars>>

NextOrder ==
    \/ ChkOpen
    \/ OrderChunk
    \/ ChkFinalize

SpecOrder == InitSplit /\ [][NextOrder]_vars

\* the call after its first k chunks in file order
RECURSIVE in_file_order(_, _)
in_file_order(c, k) ==
    IF c.an.index >= k THEN c
    ELSE in_file_order(chk_chunk(c, next_chunk(c.file, c.an.index)), k)

InFileOrder ==
    in_file_order([chk EXCEPT !.an = analyze_locals(chk.file.columns),
                              !.fl = [col \in Range(chk.file.columns) |-> RunningStat]],
                  Cardinality(ChunkPlaces(chk.file)))

\* the parts of the record, in exact arithmetic, that the order of the
\* chunks cannot change: all but the duplicate sample; and count, min and
\* max in floating point
SameButSample ==
    LET ref == InFileOrder
    IN  /\ [chk.record[1] EXCEPT !.duplicate_sample = 0]
               = [finalize(ref.an, 1) EXCEPT !.duplicate_sample = 0]
        /\ chk.an.row_count = ref.an.row_count
        /\ chk.an.missing_counts = ref.an.missing_counts
        /\ chk.an.fully_empty_rows = ref.an.fully_empty_rows
        /\ chk.an.depth_negative = ref.an.depth_negative
        /\ chk.an.vibration_out_of_range = ref.an.vibration_out_of_range
        /\ chk.an.numeric_stats = ref.an.numeric_stats
        /\ \A col \in Range(chk.file.columns) :
               /\ chk.fl[col].count = ref.fl[col].count
               /\ chk.fl[col].min_value = ref.fl[col].min_value
               /\ chk.fl[col].max_value = ref.fl[col].max_value

-----------------------------------------------------------------------------
(* SpecStat: a RunningStat fed batch after batch                           *)

MaxBatch == 3

MaxFed == 5

StatCells == {NA, NonNum, Num(-3), Num(0), Num(4)}

InitStat ==
    /\ stat = RunningStat
    /\ fed = <<>>
    /\ updates = 0
    /\ FindIdle
    /\ MainIdle

StatUpdate ==
    \E series \in SeqsUpTo(StatCells, MaxBatch) :
        /\ Len(fed) + Len(series) <= MaxFed
        /\ stat' = RunningStat_update(stat, series)
        /\ fed' = fed \o series
        /\ updates' = IF to_numeric_dropna(series) = <<>> THEN updates
                      ELSE updates + 1
        /\ UNCHANGED <<findVars, mainVars, parVars, tqVars, extVars>>

NextStat == StatUpdate

SpecStat == InitStat /\ [][NextStat]_vars

-----------------------------------------------------------------------------
(* SpecFloat: a RunningStat fed batch after batch, in floating point       *)

FloatCells == {NA, NonNum, Num(-3), Num(0), Num(3)}

FloatUpdate ==
    \E series \in SeqsUpTo(FloatCells, MaxBatch) :
        /\ Len(fed) + Len(series) <= MaxFed
        /\ stat' = RunningStat_update_fl(stat, series)
        /\ fed' = fed \o series
        /\ updates' = IF to_numeric_dropna(series) = <<>> THEN updates
                      ELSE updates + 1
        /\ UNCHANGED <<findVars, mainVars, parVars, tqVars, extVars>>

NextFloat == FloatUpdate

SpecFloat == InitStat /\ [][NextFloat]_vars

\* C17, as the claim states it: count = 0 exactly when min_value and
\* max_value are both None, and with count > 0 they are the smallest and the
\* largest value observed, with min_value <= mean <= max_value.
C17_MeanBetweenMinAndMax ==
    LET values == to_numeric_dropna(fed)
    IN  /\ stat.count = 0 <=> (stat.min_value = None /\ stat.max_value = None)
        /\ stat.count > 0 =>
               /\ stat.min_value = Some(SeqMin(values))
               /\ stat.max_value = Some(SeqMax(values))
               /\ ~RLess(stat.mean, float(stat.min_value[1]))
               /\ ~RLess(float(stat.max_value[1]), stat.mean)

\* C17, amended: count = 0 exactly when min_value and max_value are both
\* None; with count > 0 they are exactly the smallest and the largest value
\* observed over all batches.  The exact mean of the values lies between
\* them; the mean the RunningStat holds is that mean up to rounding (within
\* count * 2^(1 - FLOAT_BITS) times the largest magnitude), so it can fall
\* just outside min_value..max_value.
C17_MinMaxExactMeanRounded ==
    LET values == to_numeric_dropna(fed)
    IN  /\ stat.count = Len(values)
        /\ stat.count = 0 <=> (stat.min_value = None /\ stat.max_value = None)
        /\ stat.min_value = None <=> stat.max_value = None
        /\ stat.count > 0 =>
               LET exact == series_mean(values)
               IN  /\ stat.min_value = Some(SeqMin(values))
                   /\ stat.max_value = Some(SeqMax(values))
                   /\ ~RLess(exact, float(SeqMin(values)))
                   /\ ~RLess(float(SeqMax(values)), exact)
                   /\ ~RLess(Rat(2 * stat.count * MaxAbs(values), Pow2(FLOAT_BITS)),
                             RAbs(RSub(stat.mean, exact)))

\* after two updates the mean the RunningStat holds is below its min_value
C17_Witness ==
    /\ updates >= 2
    /\ stat.count >= 3
    /\ RLess(stat.mean, float(stat.min_value[1]))

\* the batch of the update that leads from this state to the next
LastBatch == SubSeq(fed', Len(fed) + 1, Len(fed'))

\* C22: an update with a batch that holds no valid number (empty, all
\* missing or all text) leaves count, mean, M2, min_value and max_value as
\* they were, whatever the state of the accumulator.
C22_InvalidBatchIsFrame ==
    [][to_numeric_dropna(LastBatch) = <<>> =>
           /\ stat'.count = stat.count
           /\ stat'.mean = stat.mean
           /\ stat'.m2 = stat.m2
           /\ stat'.min_value = stat.min_value
           /\ stat'.max_value = stat.max_value]_vars

\* one update carried the number at the head of the cells fed, and a later
\* update, the fourth cell being beyond the first batch, carried none: the
\* accumulator still holds that one number
C22_Witness ==
    /\ updates = 1
    /\ Len(fed) = 4
    /\ IsNum(fed[1])
    /\ \A i \in 2..4 : ~IsNum(fed[i])
    /\ fed[4] = NonNum
    /\ stat.count = 1
    /\ stat.min_value = Some(fed[1][2])

-----------------------------------------------------------------------------
(* SpecTorque: calls of torque_baseline on arguments around its limits      *)

Depths == {float(-1), float(0), float(5), float(6)}

Mus == {float(-1), float(0), Rat(3, 4), float(1)}

Radii == {float(-1), float(0), Rat(1, 2), float(1)}

Forces == {float(-1), float(0), float(1), float(3)}

InitTorque ==
    /\ MainIdle
    /\ StatIdle
    /\ FindIdle

TorqueCall ==
    \E depth_m \in Depths, mu \in Mus, r_m \in Radii, fn_per_m \in Forces :
        LET out == torque_baseline(depth_m, mu, r_m, fn_per_m)
        IN  /\ tq' = [pc |-> IF out.raised THEN "raised" ELSE "returned",
                      depth_m |-> depth_m, mu |-> mu, r_m |-> r_m,
                      fn_per_m |-> fn_per_m, value |-> out.value]
            /\ UNCHANGED <<mainVars, statVars, findVars, parVars, extVars>>

NextTorque == TorqueCall

SpecTorque == InitTorque /\ [][NextTorque]_vars

\* the arguments torque_baseline accepts
ValidTorqueArgs(depth_m, mu, r_m, fn_per_m) ==
    /\ ~RLess(depth_m, float(0))
    /\ ~RLess(mu, float(0))
    /\ RLess(float(0), r_m)
    /\ ~RLess(fn_per_m, float(0))

\* mu * fn_per_m * depth_m * r_m over the rationals
ExactTorque(depth_m, mu, r_m, fn_per_m) == RMul(RMul(RMul(mu, fn_per_m), depth_m), r_m)

\* C20, as the claim states it: for valid arguments the result is the
\* product mu * fn_per_m * depth_m * r_m, positive for positive arguments,
\* strictly increasing in depth_m and in mu; for invalid arguments the call
\* raises ValueError.
C20_ProductStrictlyIncreasing ==
    tq.pc # "idle" =>
        IF ValidTorqueArgs(tq.depth_m, tq.mu, tq.r_m, tq.fn_per_m)
        THEN /\ tq.pc = "returned"
             /\ tq.value = ExactTorque(tq.depth_m, tq.mu, tq.r_m, tq.fn_per_m)
             /\ (RLess(float(0), tq.fn_per_m) /\ RLess(float(0), tq.depth_m)
                 /\ RLess(float(0), tq.mu)) => RLess(float(0), tq.value)
             /\ (RLess(float(0), tq.fn_per_m) /\ RLess(float(0), tq.mu)) =>
                    \A d \in Depths :
                        RLess(tq.depth_m, d) =>
                            RLess(tq.value,
                                  torque_baseline(d, tq.mu, tq.r_m, tq.fn_per_m).value)
             /\ (RLess(float(0), tq.fn_per_m) /\ RLess(float(0), tq.depth_m)) =>
                    \A m \in Mus :
                        RLess(tq.mu, m) =>
                            RLess(tq.value,
                                  torque_baseline(tq.depth_m, m, tq.r_m, tq.fn_per_m).value)
        ELSE tq.pc = "raised"

\* C20, amended: for invalid arguments the call raises ValueError; for valid
\* arguments it returns mu * (fn_per_m * depth_m) * r_m with each product
\* rounded: the result is within a relative error of 2^(2 - FLOAT_BITS) of
\* the exact product, is 0 exactly when the exact product is 0, is positive
\* for positive arguments, and is non-decreasing (not strictly increasing)
\* in depth_m and in mu.
C20_RoundedProductNonDecreasing ==
    tq.pc # "idle" =>
        IF ValidTorqueArgs(tq.depth_m, tq.mu, tq.r_m, tq.fn_per_m)
        THEN LET exact == ExactTorque(tq.depth_m, tq.mu, tq.r_m, tq.fn_per_m)
             IN  /\ tq.pc = "returned"
                 /\ ~RLess(RMul(exact, Rat(4, Pow2(FLOAT_BITS))),
                           RAbs(RSub(tq.value, exact)))
                 /\ tq.value = float(0) <=> exact = float(0)
                 /\ (RLess(float(0), tq.fn_per_m) /\ RLess(float(0), tq.depth_m)
                     /\ RLess(float(0), tq.mu)) => RLess(float(0), tq.value)
                 /\ \A d \in Depths :
                        RLess(tq.depth_m, d) =>
                            ~RLess(torque_baseline(d, tq.mu, tq.r_m, tq.fn_per_m).value,
                                   tq.value)
                 /\ \A m \in Mus :
                        RLess(tq.mu, m) =>
                            ~RLess(torque_baseline(tq.depth_m, m, tq.r_m, tq.fn_per_m).value,
                                   tq.value)
        ELSE tq.pc = "raised"

\* a call with positive arguments whose result a larger depth does not raise
C20_Witness ==
    /\ tq.pc = "returned"
    /\ RLess(float(0), tq.mu) /\ RLess(float(0), tq.fn_per_m)
    /\ RLess(float(0), tq.value)
    /\ \E d \in Depths :
           /\ RLess(tq.depth_m, d)
           /\ torque_baseline(d, tq.mu, tq.r_m, tq.fn_per_m).value = tq.value

\* a call that raised on a radius of zero, its other arguments valid
C20_WitnessRaised ==
    /\ tq.pc = "raised"
    /\ tq.r_m = float(0)
    /\ RLess(float(0), tq.depth_m) /\ RLess(float(0), tq.mu)
    /\ RLess(float(0), tq.fn_per_m)

-----------------------------------------------------------------------------
(* SpecDet: one RollingZScoreDetector, constructed and then fed values      *)

MaxWindow == 3

MaxUpdates == 4

\* samples, in units of 1e-9: [0, 2] has a stdev of exactly one unit, and 8
\* is exactly three deviations above the mean of [0, 4]
DetValues == {float(0), float(1), float(2), float(4), float(8)}

DetThresholds == {float(-1), Rat(3, 2), float(3)}

InitDet ==
    /\ MainIdle
    /\ StatIdle
    /\ FindIdle

\* RollingZScoreDetector(window_size=..., z_threshold=..., min_samples=...)
DetConstruct ==
    /\ det.pc = "idle"
    /\ \E window_size \in 1..MaxWindow, min_samples \in 0..MaxWindow,
          z_threshold \in DetThresholds :
           det' = [det EXCEPT
                       !.pc = IF post_init_raises(window_size, min_samples)
                              THEN "raised" ELSE "ready",
                       !.self = IF post_init_raises(window_size, min_samples)
                                THEN det.self
                                ELSE RollingZScoreDetector(window_size, z_threshold,
                                                           min_samples)]
    /\ UNCHANGED <<mainVars, statVars, findVars, parVars, tqVars, svcVars, chkVars>>

\* detector.update(value)
DetUpdate ==
    /\ det.pc = "ready"
    /\ Len(det.calls) < MaxUpdates
    /\ \E value \in DetValues :
           LET out == RollingZScoreDetector_update(det.self, value)
           IN  det' = [det EXCEPT !.self = out.self,
                                  !.calls = Append(det.calls, value),
                                  !.returned = out.returned]
    /\ UNCHANGED <<mainVars, statVars, findVars, parVars, tqVars, svcVars, chkVars>>

NextDet ==
    \/ DetConstruct
    \/ DetUpdate

SpecDet == InitDet /\ [][NextDet]_vars

\* the values the window held before the last update: the last window_size
\* of the values handed to the earlier updates
WindowBefore ==
    LET n == Len(det.calls) - 1
        k == IF n < det.self.window_size THEN n ELSE det.self.window_size
    IN  SubSeq(det.calls, n - k + 1, n)

RECURSIVE NumSum(_)
NumSum(window) ==
    IF window = <<>> THEN 0 ELSE Head(window)[1] + NumSum(Tail(window))

RECURSIVE NumSumSq(_)
NumSumSq(window) ==
    IF window = <<>> THEN 0
    ELSE Head(window)[1] * Head(window)[1] + NumSumSq(Tail(window))

\* for a window of m whole samples with sum S and sum of squares Q the mean
\* is S / m and the variance (m * Q - S * S) / (m * m); value is at least
\* z_threshold = zn / zd deviations from the mean when z_threshold <= 0 or
\* (m * value - S)^2 * zd^2 >= zn^2 * (m * Q - S * S)
ShouldFire ==
    LET window == WindowBefore
        value  == det.calls[Len(det.calls)][1]
        m  == Len(window)
        S  == NumSum(window)
        Q  == NumSumSq(window)
        zn == det.self.z_threshold[1]
        zd == det.self.z_threshold[2]
    IN  /\ m >= det.self.min_samples
        /\ m * Q - S * S > m * m
        /\ \/ zn <= 0
           \/ (m * value - S) * (m * value - S) * zd * zd
                  >= zn * zn * (m * Q - S * S)

\* C21: update returns an event exactly when the window, as it was before
\* the value was appended, holds at least min_samples values, has a
\* population standard deviation above 1e-9, and the value is at least
\* z_threshold deviations from its mean; so each of the first min_samples
\* updates returns None, and an event carries the value, the mean and the
\* deviation of that window and a z-score of magnitude >= z_threshold.
C21_EventIffSpike ==
    det.calls # <<>> =>
        /\ (det.returned # None) <=> ShouldFire
        /\ Len(det.calls) <= det.self.min_samples => det.returned = None
        /\ det.returned # None =>
               LET event == det.returned[1]
                   m == Len(WindowBefore)
               IN  /\ event.value = det.calls[Len(det.calls)]
                   /\ event.mean = Rat(NumSum(WindowBefore), m)
                   /\ event.stdev_sq =
                          Rat(m * NumSumSq(WindowBefore)
                                  - NumSum(WindowBefore) * NumSum(WindowBefore),
                              m * m)
                   /\ abs_reaches(event.z_score_sq, det.self.z_threshold)
        /\ det.self._window =
               SubSeq(det.calls,
                      IF Len(det.calls) > det.self.window_size
                      THEN Len(det.calls) - det.self.window_size + 1 ELSE 1,
                      Len(det.calls))

\* after the warm-up [0, 4] the spike 8, three deviations above the mean,
\* returns an event under z_threshold = 3
C21_Witness ==
    /\ det.self.min_samples = 2
    /\ det.self.z_threshold = float(3)
    /\ det.calls = <<float(0), float(4), float(8)>>
    /\ det.returned # None
    /\ det.returned[1].z_score_sq = float(9)

\* a window whose deviation is exactly the floor returns None whatever the
\* value
C21_WitnessFloor ==
    /\ det.self.min_samples = 2
    /\ det.self.z_threshold = float(3)
    /\ det.calls = <<float(0), float(2), float(8)>>
    /\ det.returned = None

-----------------------------------------------------------------------------
(* SpecSvc: run_mqtt, its detector and the messages its handler receives    *)

MaxMessages == 5

\* depths: -1 is a depth torque_baseline rejects
SvcDepths == {float(-1), float(0), float(2)}

SvcTorques == {float(0), float(8)}

SvcMessages ==
    {Message(DEPTH_TOPIC, Json(Some(v))) : v \in SvcDepths}
    \cup {Message(TORQUE_TOPIC, Json(Some(v))) : v \in SvcTorques}
    \cup {Message(DEPTH_TOPIC, Json(None)), Message(TORQUE_TOPIC, Json(None)),
          Message(TORQUE_TOPIC, NotJson)}

InitSvc ==
    /\ MainIdle
    /\ StatIdle
    /\ FindIdle

\* run_mqtt lines 126-135: the detector from the environment, no depth yet
SvcStart ==
    /\ svc.pc = "idle"
    /\ \E min_samples \in 0..2 :
           svc' = IF post_init_raises(2, min_samples)
                  THEN [svc EXCEPT !.pc = "raised"]
                  ELSE [svc EXCEPT
                            !.pc = "running",
                            !.depth_m = None,
                            !.detector =
                                TorqueAnomalyDetector(Rat(1, 2), float(1), float(1),
                                                      float(1), 2, min_samples)]
    /\ UNCHANGED <<mainVars, statVars, findVars, parVars, tqVars, detVars, chkVars>>

\* the client loop delivers one message to on_message
OnMessage ==
    /\ svc.pc = "running"
    /\ Len(svc.handled) < MaxMessages
    /\ \E msg \in SvcMessages :
           svc' = [on_message(svc, msg) EXCEPT !.handled = Append(@, msg)]
    /\ UNCHANGED <<mainVars, statVars, findVars, parVars, tqVars, detVars, chkVars>>

NextSvc ==
    \/ SvcStart
    \/ OnMessage

SpecSvc == InitSvc /\ [][NextSvc]_vars

HasValue(msg) == msg.payload # NotJson /\ msg.payload[2] # None

\* the places in the messages handled of the depth messages with a value
DepthPlaces(handled) ==
    {k \in 1..Len(handled) : handled[k].topic = DEPTH_TOPIC /\ HasValue(handled[k])}

\* the message the step hands to on_message
Delivered == svc'.handled[Len(svc'.handled)]

\* C28: a torque message that arrives before any depth message with a value
\* neither updates the detector nor publishes; a depth message only replaces
\* the stored depth and never publishes; and a published event carries the
\* depth (as a float) of the most recent depth message with a value handled
\* before the torque message that triggered it.
C28_HandlerPairsTorqueWithLastDepth ==
    [][Len(svc'.handled) = Len(svc.handled) + 1 =>
           /\ (Delivered.topic = TORQUE_TOPIC /\ DepthPlaces(svc.handled) = {}) =>
                  /\ svc'.detector = svc.detector
                  /\ svc'.published = svc.published
           /\ Delivered.topic = DEPTH_TOPIC =>
                  /\ svc'.detector = svc.detector
                  /\ svc'.published = svc.published
                  /\ svc'.pc = svc.pc
                  /\ svc'.depth_m = IF HasValue(Delivered)
                                    THEN Some(fl(Delivered.payload[2][1]))
                                    ELSE svc.depth_m
           /\ svc'.published # svc.published =>
                  /\ Delivered.topic = TORQUE_TOPIC
                  /\ HasValue(Delivered)
                  /\ DepthPlaces(svc.handled) # {}
                  /\ Len(svc'.published) = Len(svc.published) + 1
                  /\ SubSeq(svc'.published, 1, Len(svc.published)) = svc.published
                  /\ LET last == CHOOSE k \in DepthPlaces(svc.handled) :
                                     \A j \in DepthPlaces(svc.handled) : j <= k
                         event == svc'.published[Len(svc'.published)]
                     IN  /\ event.depth_m = fl(svc.handled[last].payload[2][1])
                         /\ event.torque_nm = fl(Delivered.payload[2][1])
                         /\ svc'.depth_m = svc.depth_m]_vars

\* after depth 0 and two torque messages a second depth message, 2, was
\* stored, and the next torque message published an event that carries 2
C28_Witness ==
    /\ svc.handled = <<Message(DEPTH_TOPIC, Json(Some(float(0)))),
                       Message(TORQUE_TOPIC, Json(Some(float(0)))),
                       Message(TORQUE_TOPIC, Json(Some(float(8)))),
                       Message(DEPTH_TOPIC, Json(Some(float(2)))),
                       Message(TORQUE_TOPIC, Json(Some(float(0))))>>
    /\ Len(svc.published) = 1
    /\ svc.published[1].depth_m = float(2)
    /\ svc.published[1].residual_nm = float(-1)

\* two torque messages came before any depth message with a value: the
\* detector's window is still empty and nothing was published
C28_WitnessNoDepth ==
    /\ svc.handled = <<Message(TORQUE_TOPIC, Json(Some(float(0)))),
                       Message(DEPTH_TOPIC, Json(None)),
                       Message(TORQUE_TOPIC, Json(Some(float(8))))>>
    /\ svc.pc = "running"
    /\ svc.depth_m = None
    /\ svc.detector.detector._window = <<>>
    /\ svc.published = <<>>

-----------------------------------------------------------------------------
(* SpecFind: one call of find_column                                       *)

MaxCols == 3

MaxCands == 3

FindNames == {s_BIT_DEPTH, s_bit_depth, s_Bit_Depth_m, s_DEPTH_ROP, s_ROP, s_PUNCT}

\* candidates come from the alias lists, whose normalized forms are all
\* non-empty
FindCands == {s_BIT_DEPTH, s_DEPTH, s_ROP, s_MD}

InitFind ==
    /\ fc_columns \in InjSeqsUpTo(FindNames, MaxCols)
    /\ fc_candidates \in InjSeqsUpTo(FindCands, MaxCands)
    /\ fc_result = None
    /\ fc_pc = "call"
    /\ StatIdle
    /\ MainIdle

FindColumn ==
    /\ fc_pc = "call"
    /\ fc_result' = find_column(fc_columns, fc_candidates)
    /\ fc_pc' = "done"
    /\ UNCHANGED <<fc_columns, fc_candidates, statVars, mainVars, parVars, tqVars, extVars>>

NextFind == FindColumn

SpecFind == InitFind /\ [][NextFind]_vars

\* the headers whose normalized form equals the candidate's
ExactMatches(columns, c) ==
    {columns[i] : i \in {j \in 1..Len(columns) :
                            normalize_name(columns[j]) = normalize_name(c)}}

\* the headers whose normalized form contains the candidate's
SubstringMatches(columns, c) ==
    {columns[i] : i \in {j \in 1..Len(columns) :
                            IsSubstring(normalize_name(c), normalize_name(columns[j]))}}

\* C6: find_column returns a header that exactly matches the earliest
\* candidate with an exact match; only when no candidate matches exactly, a
\* header that contains the earliest candidate contained in any header; and
\* None when neither pass matches.
C6_ExactBeforeSubstring ==
    fc_pc = "done" =>
        LET E == {i \in 1..Len(fc_candidates) :
                     ExactMatches(fc_columns, fc_candidates[i]) # {}}
            S == {i \in 1..Len(fc_candidates) :
                     SubstringMatches(fc_columns, fc_candidates[i]) # {}}
            first(I) == CHOOSE i \in I : \A j \in I : i <= j
        IN  IF E # {}
            THEN /\ fc_result # None
                 /\ fc_result[1] \in ExactMatches(fc_columns, fc_candidates[first(E)])
            ELSE IF S # {}
            THEN /\ fc_result # None
                 /\ fc_result[1] \in SubstringMatches(fc_columns, fc_candidates[first(S)])
            ELSE fc_result = None

\* an exact match on the second candidate wins over a substring match on the
\* first: header [DEPTH_ROP, BIT_DEPTH], candidates [DEPTH, BIT_DEPTH]
C6_Witness ==
    /\ fc_pc = "done"
    /\ fc_columns = <<s_DEPTH_ROP, s_BIT_DEPTH>>
    /\ fc_candidates = <<s_DEPTH, s_BIT_DEPTH>>
    /\ fc_result = Some(s_BIT_DEPTH)

=============================================================================
